---- MODULE Spec2Model ----
(***************************************************************************)
(* Gamma exposure analytics engine of gex-calculator (web-app/calculations *)
(* .js) and the page state that drives it (web-app/app.js).                *)
(*                                                                         *)
(* Every number of the program is a JavaScript Number: a binary floating   *)
(* point value rounded to nearest, ties to even, after each arithmetic     *)
(* operation, plus NaN, +Infinity and -Infinity.  The model keeps that     *)
(* arithmetic and scales its significand down from 53 bits to Prec bits.   *)
(* A finite value is m * 2^e with m = 0 or 2^(Prec-1) <= |m| < 2^Prec, so  *)
(* equal numbers are equal records.  The exponent is unbounded (no         *)
(* overflow to Infinity, no subnormals) and -0 is not told from +0.        *)
(***************************************************************************)
EXTENDS Integers, Sequences, FiniteSets, TLC

\* Significand width of a Number in bits (53 in IEEE-754 binary64).
Prec == 9

\* Longest contract list handed to the engine.
MaxContracts == 3

\* Fractional bits of the fixed-point evaluation inside Math.log and Math.exp.
FxBits == 14

-----------------------------------------------------------------------------
(* JavaScript Number arithmetic *)

Fin(m, e) == [k |-> "fin", m |-> m, e |-> e]
NaN == [k |-> "nan", m |-> 0, e |-> 0]
Inf(s) == [k |-> "inf", m |-> s, e |-> 0]
Zero == Fin(0, 0)

IsNaN(x) == x.k = "nan"
IsFinite(x) == x.k = "fin"

AbsInt(n) == IF n < 0 THEN -n ELSE n
SgnInt(n) == IF n < 0 THEN -1 ELSE IF n > 0 THEN 1 ELSE 0

\* The number of bits of a, 1 <= a < 2^31.
BitLen(a) ==
    IF a < 65536
    THEN IF a < 256
         THEN IF a < 16
              THEN IF a < 4 THEN (IF a < 2 THEN 1 ELSE 2) ELSE (IF a < 8 THEN 3 ELSE 4)
              ELSE IF a < 64 THEN (IF a < 32 THEN 5 ELSE 6) ELSE (IF a < 128 THEN 7 ELSE 8)
         ELSE IF a < 4096
              THEN IF a < 1024 THEN (IF a < 512 THEN 9 ELSE 10)
                   ELSE (IF a < 2048 THEN 11 ELSE 12)
              ELSE IF a < 16384 THEN (IF a < 8192 THEN 13 ELSE 14)
                   ELSE (IF a < 32768 THEN 15 ELSE 16)
    ELSE IF a < 16777216
         THEN IF a < 1048576
              THEN IF a < 262144 THEN (IF a < 131072 THEN 17 ELSE 18)
                   ELSE (IF a < 524288 THEN 19 ELSE 20)
              ELSE IF a < 4194304 THEN (IF a < 2097152 THEN 21 ELSE 22)
                   ELSE (IF a < 8388608 THEN 23 ELSE 24)
         ELSE IF a < 268435456
              THEN IF a < 67108864 THEN (IF a < 33554432 THEN 25 ELSE 26)
                   ELSE (IF a < 134217728 THEN 27 ELSE 28)
              ELSE IF a < 1073741824 THEN (IF a < 536870912 THEN 29 ELSE 30)
                   ELSE 31

\* Operators take the values they use more than once as parameters, so
\* that each is evaluated once.

\* The significand q1 after rounding: 2^Prec carries into the exponent.
Carry(s, q1, e) ==
    IF q1 = 2^Prec THEN Fin(s * 2^(Prec - 1), e + 1) ELSE Fin(s * q1, e)

\* q + r / 2^sh rounded to an integer: to nearest, ties to even.
RoundShifted(s, q, r, half, e) ==
    Carry(s, IF r > half \/ (r = half /\ q % 2 = 1) THEN q + 1 ELSE q, e)

RoundBits(s, a, e, bits) ==
    IF bits <= Prec
    THEN Fin(s * a * 2^(Prec - bits), e - (Prec - bits))
    ELSE RoundShifted(s, a \div 2^(bits - Prec), a % 2^(bits - Prec),
                      2^(bits - Prec - 1), e + bits - Prec)

RoundAbs(s, a, e) == RoundBits(s, a, e, BitLen(a))

\* The Number nearest to m * 2^e: round to nearest, ties to even.
RoundToPrec(m, e) == IF m = 0 THEN Zero ELSE RoundAbs(SgnInt(m), AbsInt(m), e)

\* An integer literal, and a decimal literal n/d (0.05 is Dec(5, 100)).
Num(n) == RoundToPrec(n, 0)

JsNeg(x) == IF IsNaN(x) THEN NaN ELSE [x EXCEPT !.m = -x.m]

\* Math.abs
MathAbs(x) == IF IsNaN(x) THEN NaN ELSE [x EXCEPT !.m = AbsInt(x.m)]

\* hi + lo for finite nonzero Numbers, hi of the larger exponent: lo is
\* below a quarter of hi's last place once the exponents differ by Prec + 2.
AddAligned(hi, lo) ==
    IF hi.e - lo.e >= Prec + 2 THEN hi
    ELSE RoundToPrec(hi.m * 2^(hi.e - lo.e) + lo.m, lo.e)

AddFin(x, y) ==
    IF x.m = 0 THEN y
    ELSE IF y.m = 0 THEN x
    ELSE IF x.e >= y.e THEN AddAligned(x, y) ELSE AddAligned(y, x)

\* x + y
JsAdd(x, y) ==
    IF IsNaN(x) \/ IsNaN(y) THEN NaN
    ELSE IF x.k = "inf" /\ y.k = "inf" THEN (IF x.m = y.m THEN x ELSE NaN)
    ELSE IF x.k = "inf" THEN x
    ELSE IF y.k = "inf" THEN y
    ELSE AddFin(x, y)

\* x - y
JsSub(x, y) == JsAdd(x, JsNeg(y))

\* x * y
JsMul(x, y) ==
    IF IsNaN(x) \/ IsNaN(y) THEN NaN
    ELSE IF x.k = "inf" \/ y.k = "inf"
         THEN (IF x.m = 0 \/ y.m = 0 THEN NaN ELSE Inf(SgnInt(x.m) * SgnInt(y.m)))
    ELSE RoundToPrec(x.m * y.m, x.e + y.e)

\* s * a / b * 2^e: the quotient to Prec + 2 bits and a sticky bit.
DivAbs(s, a, b, e) ==
    RoundToPrec(s * (2 * (a \div b) + (IF a % b = 0 THEN 0 ELSE 1)), e - 1)

DivFin(x, y) ==
    DivAbs(SgnInt(x.m) * SgnInt(y.m), AbsInt(x.m) * 2^(Prec + 1), AbsInt(y.m),
           x.e - y.e - (Prec + 1))

\* x / y
JsDiv(x, y) ==
    IF IsNaN(x) \/ IsNaN(y) THEN NaN
    ELSE IF x.k = "inf" THEN (IF y.k = "inf" THEN NaN
                              ELSE Inf(IF y.m < 0 THEN -x.m ELSE x.m))
    ELSE IF y.k = "inf" THEN Zero
    ELSE IF y.m = 0 THEN (IF x.m = 0 THEN NaN ELSE Inf(SgnInt(x.m)))
    ELSE IF x.m = 0 THEN Zero
    ELSE DivFin(x, y)

Dec(n, d) == JsDiv(Num(n), Num(d))

\* -1, 0 or 1 as x is below, equal to or above y; neither is NaN.
Cmp(x, y) ==
    IF x.k = "inf" /\ y.k = "inf" THEN SgnInt(x.m - y.m)
    ELSE IF x.k = "inf" THEN x.m
    ELSE IF y.k = "inf" THEN -y.m
    ELSE SgnInt(AddFin(x, JsNeg(y)).m)

\* x < y, x <= y, x > y, x >= y, x === y: false when either side is NaN.
JsLt(x, y) == ~IsNaN(x) /\ ~IsNaN(y) /\ Cmp(x, y) < 0
JsLe(x, y) == ~IsNaN(x) /\ ~IsNaN(y) /\ Cmp(x, y) <= 0
JsGt(x, y) == ~IsNaN(x) /\ ~IsNaN(y) /\ Cmp(x, y) > 0
JsGe(x, y) == ~IsNaN(x) /\ ~IsNaN(y) /\ Cmp(x, y) >= 0
JsEq(x, y) == ~IsNaN(x) /\ ~IsNaN(y) /\ Cmp(x, y) = 0

RECURSIVE ISqrt(_, _, _)
ISqrt(n, lo, hi) ==
    IF lo >= hi THEN lo
    ELSE LET mid == (lo + hi + 1) \div 2
         IN IF mid * mid <= n THEN ISqrt(n, mid, hi) ELSE ISqrt(n, lo, mid - 1)

\* The root r of n = floor(sqrt(n)) with a sticky bit, times 2^e.
SqrtRounded(n, r, e) == RoundToPrec(2 * r + (IF r * r = n THEN 0 ELSE 1), e - 1)

\* x = (x.m * 2^sh) * 2^(x.e - sh), the exponent even.
SqrtShifted(x, sh) ==
    SqrtRounded(x.m * 2^sh, ISqrt(x.m * 2^sh, 0, 46340), (x.e - sh) \div 2)

\* Math.sqrt, correctly rounded.
MathSqrt(x) ==
    IF IsNaN(x) THEN NaN
    ELSE IF x.m < 0 THEN NaN
    ELSE IF x.k = "inf" \/ x.m = 0 THEN x
    ELSE SqrtShifted(x, IF (x.e - (Prec + 3)) % 2 = 0 THEN Prec + 3 ELSE Prec + 4)

FxOne == 2^FxBits
\* ln 2 in fixed point
FxLn2 == (45426 * FxOne) \div 65536

FxMul(a, b) == (a * b) \div FxOne

\* z^k / k + z^(k+2) / (k+2) + ... up to z^9 / 9, zk = z^k
RECURSIVE FxAtanhFrom(_, _, _)
FxAtanhFrom(zk, z2, k) ==
    IF k > 9 THEN 0 ELSE zk \div k + FxAtanhFrom(FxMul(zk, z2), z2, k + 2)

FxAtanh(z) == FxAtanhFrom(z, FxMul(z, z), 1)

\* r^k / k! + ... up to r^5 / 5!, term = r^k / (k-1)!
RECURSIVE FxExpFrom(_, _, _)
FxExpFrom(term, r, k) ==
    IF k > 5 THEN 0 ELSE term \div k + FxExpFrom(FxMul(term \div k, r), r, k + 1)

\* Math.log: ln(f * 2^n) = n ln 2 + 2 atanh((f-1)/(f+1)) for 1 <= f < 2,
\* the series summed in fixed point with FxBits fractional bits.
MathLog(x) ==
    IF IsNaN(x) THEN NaN
    ELSE IF x.m < 0 THEN NaN
    ELSE IF x.k = "inf" THEN x
    ELSE IF x.m = 0 THEN Inf(-1)
    ELSE RoundToPrec((x.e + Prec - 1) * FxLn2
                       + 2 * FxAtanh(((x.m - 2^(Prec - 1)) * FxOne)
                                        \div (x.m + 2^(Prec - 1))),
                     -FxBits)

\* e^(fx / FxOne) = 2^n e^r
ExpReduced(fx, n) ==
    RoundToPrec(FxOne + FxExpFrom(fx - n * FxLn2, fx - n * FxLn2, 1), n - FxBits)

ExpFx(fx) == ExpReduced(fx, (2 * fx + FxLn2) \div (2 * FxLn2))

\* Math.exp: e^x = 2^n e^r with |r| <= ln(2)/2, the Taylor series of e^r
\* summed in fixed point; 0 or Infinity once |x| reaches 2^10.
MathExp(x) ==
    IF IsNaN(x) THEN NaN
    ELSE IF x.k = "inf" THEN (IF x.m > 0 THEN x ELSE Zero)
    ELSE IF x.m = 0 THEN Num(1)
    ELSE IF x.e + Prec > 10 THEN (IF x.m > 0 THEN Inf(1) ELSE Zero)
    ELSE ExpFx(IF x.e + FxBits >= 0 THEN x.m * 2^(x.e + FxBits)
               ELSE x.m \div 2^(-(x.e + FxBits)))

\* Math.PI
MathPI == RoundToPrec(3294199, -20)

-----------------------------------------------------------------------------
(* GammaCalculator *)

\* Contract multiplier in calculateGammaExposure.
Multiplier == 100
\* Days per year in calculateGammaExposure.
DaysPerYear == 365

\* normPDF(x): Math.exp(-0.5 * x * x) / Math.sqrt(2 * Math.PI)
normPDF(x) ==
    JsDiv(MathExp(JsMul(JsMul(JsNeg(Dec(1, 2)), x), x)),
          MathSqrt(JsMul(Num(2), MathPI)))

\* calculateD1(spotPrice, strike, timeToExpiry, volatility), this.riskFreeRate = rate
calculateD1(rate, spotPrice, strike, timeToExpiry, volatility) ==
    LET numerator ==
            JsAdd(MathLog(JsDiv(spotPrice, strike)),
                  JsMul(JsAdd(rate, JsMul(JsMul(Dec(1, 2), volatility), volatility)),
                        timeToExpiry))
        denominator == JsMul(volatility, MathSqrt(timeToExpiry))
    IN JsDiv(numerator, denominator)

\* calculateGamma(spotPrice, strike, timeToExpiry, volatility)
calculateGamma(rate, spotPrice, strike, timeToExpiry, volatility) ==
    IF JsLe(timeToExpiry, Zero) THEN Zero
    ELSE LET d1 == calculateD1(rate, spotPrice, strike, timeToExpiry, volatility)
         IN JsDiv(normPDF(d1),
                  JsMul(JsMul(spotPrice, volatility), MathSqrt(timeToExpiry)))

\* The exposure under the opposite convention: calls positive, puts negative.
GammaExposureSignsSwapped(rate, contract, spotPrice) ==
    LET timeToExpiry == JsDiv(contract.daysToExpiry, Num(DaysPerYear))
        gamma == calculateGamma(rate, spotPrice, contract.strike, timeToExpiry,
                                contract.impliedVolatility)
        gammaExposure ==
            JsMul(JsMul(JsMul(JsMul(gamma, contract.openInterest), Num(Multiplier)),
                        spotPrice), spotPrice)
        mmGamma == IF contract.optionType = "call" THEN gammaExposure
                   ELSE JsNeg(gammaExposure)
    IN [strike |-> contract.strike,
        optionType |-> contract.optionType,
        gamma |-> gamma,
        gammaExposure |-> mmGamma,
        openInterest |-> contract.openInterest]

\* The exposure with no sign convention: gamma * OI * 100 * spot^2 for both types.
GammaExposureUnsigned(rate, contract, spotPrice) ==
    LET timeToExpiry == JsDiv(contract.daysToExpiry, Num(DaysPerYear))
        gamma == calculateGamma(rate, spotPrice, contract.strike, timeToExpiry,
                                contract.impliedVolatility)
        gammaExposure ==
            JsMul(JsMul(JsMul(JsMul(gamma, contract.openInterest), Num(Multiplier)),
                        spotPrice), spotPrice)
        mmGamma == gammaExposure
    IN [strike |-> contract.strike,
        optionType |-> contract.optionType,
        gamma |-> gamma,
        gammaExposure |-> mmGamma,
        openInterest |-> contract.openInterest]

\* calculateGammaExposure(contract, spotPrice): the Black-Scholes gamma scaled
\* by open interest, the multiplier and spot squared, signed for the dealer.
calculateGammaExposure(rate, contract, spotPrice) ==
    LET timeToExpiry == JsDiv(contract.daysToExpiry, Num(DaysPerYear))
        gamma == calculateGamma(rate, spotPrice, contract.strike, timeToExpiry,
                                contract.impliedVolatility)
        gammaExposure ==
            JsMul(JsMul(JsMul(JsMul(gamma, contract.openInterest), Num(Multiplier)),
                        spotPrice), spotPrice)
        mmGamma == IF contract.optionType = "call" THEN JsNeg(gammaExposure)
                   ELSE gammaExposure
    IN [strike |-> contract.strike,
        optionType |-> contract.optionType,
        gamma |-> gamma,
        gammaExposure |-> mmGamma,
        openInterest |-> contract.openInterest]

\* strikeMap is the Map of aggregateByStrike: its values in insertion order,
\* keyed by strike (SameValueZero, which is equality of Number records).
HasStrike(strikeMap, strike) == \E i \in DOMAIN strikeMap : strikeMap[i].strike = strike

NewStrikeData(strike) ==
    [strike |-> strike, callGamma |-> Zero, putGamma |-> Zero,
     netGamma |-> Zero, totalOI |-> Zero]

\* An update that adds the exposure to the running net instead of recomputing
\* the net from the two components.
UpdateStrikeDataRunningNet(strikeData, exposure) ==
    LET added == IF exposure.optionType = "call"
                 THEN [strikeData EXCEPT
                          !.callGamma = JsAdd(strikeData.callGamma, exposure.gammaExposure)]
                 ELSE [strikeData EXCEPT
                          !.putGamma = JsAdd(strikeData.putGamma, exposure.gammaExposure)]
    IN [added EXCEPT !.netGamma = JsAdd(strikeData.netGamma, exposure.gammaExposure),
                     !.totalOI = JsAdd(added.totalOI, exposure.openInterest)]

\* The update of one bucket by one exposure (the tail of the forEach callback).
UpdateStrikeData(strikeData, exposure) ==
    LET added == IF exposure.optionType = "call"
                 THEN [strikeData EXCEPT
                          !.callGamma = JsAdd(strikeData.callGamma, exposure.gammaExposure)]
                 ELSE [strikeData EXCEPT
                          !.putGamma = JsAdd(strikeData.putGamma, exposure.gammaExposure)]
    IN [added EXCEPT !.netGamma = JsAdd(added.callGamma, added.putGamma),
                     !.totalOI = JsAdd(added.totalOI, exposure.openInterest)]

\* The forEach callback of aggregateByStrike, given the contract's exposure.
FoldExposure(strikeMap, exposure) ==
    LET map == IF HasStrike(strikeMap, exposure.strike) THEN strikeMap
               ELSE Append(strikeMap, NewStrikeData(exposure.strike))
    IN [i \in DOMAIN map |->
           IF map[i].strike = exposure.strike
           THEN UpdateStrikeData(map[i], exposure)
           ELSE map[i]]

\* The comparator (a, b) => a.strike - b.strike; a NaN result counts as 0.
StrikeAfter(a, b) == JsGt(JsSub(a.strike, b.strike), Zero)

RECURSIVE InsertByStrike(_, _)
InsertByStrike(sorted, b) ==
    IF sorted = <<>> THEN <<b>>
    ELSE LET last == sorted[Len(sorted)]
         IN IF StrikeAfter(last, b)
            THEN Append(InsertByStrike(SubSeq(sorted, 1, Len(sorted) - 1), b), last)
            ELSE Append(sorted, b)

\* The Map's values left in insertion order.
InsertionOrder(values) == values

\* Array.from(strikeMap.values()).sort(...): a stable sort, ascending by strike.
RECURSIVE SortByStrike(_)
SortByStrike(values) ==
    IF values = <<>> THEN <<>>
    ELSE InsertByStrike(SortByStrike(SubSeq(values, 1, Len(values) - 1)),
                        values[Len(values)])

RECURSIVE FoldContracts(_, _, _, _)
FoldContracts(rate, strikeMap, contracts, spotPrice) ==
    IF contracts = <<>> THEN strikeMap
    ELSE FoldContracts(rate,
                       FoldExposure(strikeMap,
                                    calculateGammaExposure(rate, Head(contracts), spotPrice)),
                       Tail(contracts), spotPrice)

\* aggregateByStrike(contracts, spotPrice)
aggregateByStrike(rate, contracts, spotPrice) ==
    SortByStrike(FoldContracts(rate, <<>>, contracts, spotPrice))

-----------------------------------------------------------------------------
(* CSVParser *)

\* A row is a CSV line after the field conversions of parse: strike is
\* parseFloat(row.strike), rawIV is parseFloat(row.implied_volatility ||
\* row.iv || 0.2), openInterest is parseInt(row.open_interest || ... || 0) and
\* daysToExpiry is Math.max(1, Math.ceil((expiry - today) / 86400000)).

\* Above this a raw IV is a percentage; also the cap of a normalised IV.
IvPercentAbove == 10

\* The IV normalisation of parse.
NormalizeIV(rawIV) ==
    LET iv == IF JsGt(rawIV, Num(IvPercentAbove)) THEN JsDiv(rawIV, Num(100)) ELSE rawIV
    IN IF JsLt(iv, Dec(1, 100)) THEN Dec(5, 100)
       ELSE IF JsGt(iv, Num(IvPercentAbove)) THEN Num(IvPercentAbove)
       ELSE iv

\* The contract parse builds from one row.
RowContract(row) ==
    [strike |-> row.strike,
     optionType |-> row.optionType,
     openInterest |-> row.openInterest,
     impliedVolatility |-> NormalizeIV(row.rawIV),
     daysToExpiry |-> row.daysToExpiry]

\* if (!isNaN(contract.strike) && contract.strike > 0) contracts.push(contract)
KeepsRow(row) == ~IsNaN(row.strike) /\ JsGt(row.strike, Zero)

\* parse(csvText): the contracts of the rows it keeps, in file order.
RECURSIVE parse(_)
parse(rows) ==
    IF rows = <<>> THEN <<>>
    ELSE LET rest == parse(SubSeq(rows, 1, Len(rows) - 1))
             row == rows[Len(rows)]
         IN IF KeepsRow(row) THEN Append(rest, RowContract(row)) ELSE rest

-----------------------------------------------------------------------------
(* MetricsCalculator *)

\* array.reduce((sum, x) => sum + f(x), 0) over the values in array order.
RECURSIVE SumSeq(_)
SumSeq(values) ==
    IF values = <<>> THEN Zero
    ELSE JsAdd(SumSeq(SubSeq(values, 1, Len(values) - 1)), values[Len(values)])

NetGammas(gammaExposures) == [i \in DOMAIN gammaExposures |-> gammaExposures[i].netGamma]
CallGammas(gammaExposures) == [i \in DOMAIN gammaExposures |-> gammaExposures[i].callGamma]
PutGammas(gammaExposures) == [i \in DOMAIN gammaExposures |-> gammaExposures[i].putGamma]

\* Math.min(...values): Infinity for no values, NaN if any value is NaN.
RECURSIVE MathMin(_)
MathMin(values) ==
    IF values = <<>> THEN Inf(1)
    ELSE LET rest == MathMin(SubSeq(values, 1, Len(values) - 1))
             v == values[Len(values)]
         IN IF IsNaN(rest) \/ IsNaN(v) THEN NaN
            ELSE IF JsLt(v, rest) THEN v ELSE rest

\* Math.max(...values): -Infinity for no values, NaN if any value is NaN.
RECURSIVE MathMax(_)
MathMax(values) ==
    IF values = <<>> THEN Inf(-1)
    ELSE LET rest == MathMax(SubSeq(values, 1, Len(values) - 1))
             v == values[Len(values)]
         IN IF IsNaN(rest) \/ IsNaN(v) THEN NaN
            ELSE IF JsGt(v, rest) THEN v ELSE rest

\* totalAbsGamma: the sum of |netGamma| over the strikes.
TotalAbsGamma(gammaExposures) ==
    SumSeq([i \in DOMAIN gammaExposures |-> MathAbs(gammaExposures[i].netGamma)])

\* A weighted strike that reports 0 when no strike has a net exposure.
WeightedStrikeOrZero(gammaExposures) ==
    IF JsEq(TotalAbsGamma(gammaExposures), Zero) THEN Zero
    ELSE JsDiv(SumSeq([i \in DOMAIN gammaExposures |->
                         JsMul(gammaExposures[i].strike,
                               MathAbs(gammaExposures[i].netGamma))]),
               TotalAbsGamma(gammaExposures))

\* weightedStrike: the sum of strike * |netGamma| over totalAbsGamma.
WeightedStrike(gammaExposures) ==
    JsDiv(SumSeq([i \in DOMAIN gammaExposures |->
                    JsMul(gammaExposures[i].strike,
                          MathAbs(gammaExposures[i].netGamma))]),
          TotalAbsGamma(gammaExposures))

\* calculateAllMetrics(gammaExposures)
calculateAllMetrics(gammaExposures) ==
    LET n == Len(gammaExposures)
        totalNetGamma == SumSeq(NetGammas(gammaExposures))
        totalCallGamma == SumSeq(CallGammas(gammaExposures))
        totalPutGamma == SumSeq(PutGammas(gammaExposures))
        weightedStrike == WeightedStrike(gammaExposures)
        callPutRatio == MathAbs(JsDiv(totalCallGamma, totalPutGamma))
        mean == JsDiv(totalNetGamma, Num(n))
        variance ==
            JsDiv(SumSeq([i \in 1..n |->
                            LET dev == JsSub(gammaExposures[i].netGamma, mean)
                            IN JsMul(dev, dev)]),
                  Num(n))
    IN [totalNetGamma |-> totalNetGamma,
        totalCallGamma |-> totalCallGamma,
        totalPutGamma |-> totalPutGamma,
        gammaWeightedAvgStrike |-> weightedStrike,
        callPutGammaRatio |-> callPutRatio,
        maxCallExposure |-> MathMin(CallGammas(gammaExposures)),
        maxPutExposure |-> MathMax(PutGammas(gammaExposures)),
        gammaExposureStd |-> MathSqrt(variance)]

\* null, the gammaFlipLevel when no adjacent pair changes sign
Null == [k |-> "null", m |-> 0, e |-> 0]

\* The strength interpretation ladder of calculateGammaEnvironment.
StrengthLevel(strength) ==
    IF JsGe(strength, Dec(10, 100)) THEN "Very Strong"
    ELSE IF JsGe(strength, Dec(5, 100)) THEN "Strong"
    ELSE IF JsGe(strength, Dec(2, 100)) THEN "Moderate"
    ELSE IF JsGe(strength, Dec(1, 100)) THEN "Weak"
    ELSE "Very Weak"

SignChange(current, next) ==
    \/ JsGt(current.netGamma, Zero) /\ JsLt(next.netGamma, Zero)
    \/ JsLt(current.netGamma, Zero) /\ JsGt(next.netGamma, Zero)

\* A flip level taken at the last adjacent sign change instead of the first.
LastSignChangeLevel(gammaExposures) ==
    LET flips == {i \in 1..(Len(gammaExposures) - 1) :
                     SignChange(gammaExposures[i], gammaExposures[i + 1])}
    IN IF flips = {} THEN Null
       ELSE LET i == CHOOSE j \in flips : \A l \in flips : j >= l
            IN JsDiv(JsAdd(gammaExposures[i].strike, gammaExposures[i + 1].strike), Num(2))

\* The loop that finds the gamma flip level: the first adjacent sign change.
GammaFlipLevel(gammaExposures) ==
    LET flips == {i \in 1..(Len(gammaExposures) - 1) :
                     SignChange(gammaExposures[i], gammaExposures[i + 1])}
    IN IF flips = {} THEN Null
       ELSE LET i == CHOOSE j \in flips : \A l \in flips : j <= l
            IN JsDiv(JsAdd(gammaExposures[i].strike, gammaExposures[i + 1].strike), Num(2))

\* calculateGammaEnvironment(gammaExposures, currentPrice); the colour and
\* the description texts follow from level and environment and are left out.
calculateGammaEnvironment(gammaExposures, currentPrice) ==
    LET metrics == calculateAllMetrics(gammaExposures)
        n == Len(gammaExposures)
        environment == IF JsGt(metrics.totalNetGamma, Zero) THEN "positive"
                       ELSE IF JsLt(metrics.totalNetGamma, Zero) THEN "negative"
                       ELSE "neutral"
        totalOI == SumSeq([i \in 1..n |-> gammaExposures[i].totalOI])
        strength == JsDiv(MathAbs(metrics.totalNetGamma), JsMul(currentPrice, totalOI))
        positiveStrikes == Cardinality({i \in 1..n : JsGt(gammaExposures[i].netGamma, Zero)})
        negativeStrikes == Cardinality({i \in 1..n : JsLt(gammaExposures[i].netGamma, Zero)})
        neutralStrikes == Cardinality({i \in 1..n : JsEq(gammaExposures[i].netGamma, Zero)})
    IN [environment |-> environment,
        environmentStrength |-> strength,
        strengthLevel |-> StrengthLevel(strength),
        gammaFlipLevel |-> GammaFlipLevel(gammaExposures),
        positiveStrikes |-> positiveStrikes,
        negativeStrikes |-> negativeStrikes,
        neutralStrikes |-> neutralStrikes,
        positiveStrikePercentage |->
            JsMul(JsDiv(Num(positiveStrikes), Num(n)), Num(100)),
        negativeStrikePercentage |->
            JsMul(JsDiv(Num(negativeStrikes), Num(n)), Num(100))]

-----------------------------------------------------------------------------
(* WallAnalyzer *)

\* The candidate of a strike with its call magnitude as the raw exposure.
CallCandidateOfMagnitude(ge, currentPrice) ==
    [strike |-> ge.strike,
     exposure |-> MathAbs(ge.callGamma),
     rawExposure |-> MathAbs(ge.callGamma),
     distance |-> MathAbs(JsSub(ge.strike, currentPrice))]

\* The object the map of findCallWalls builds from an aggregate.
CallCandidate(ge, currentPrice) ==
    [strike |-> ge.strike,
     exposure |-> MathAbs(ge.callGamma),
     rawExposure |-> ge.callGamma,
     distance |-> MathAbs(JsSub(ge.strike, currentPrice))]

\* The object the map of findPutWalls builds from an aggregate.
PutCandidate(ge, currentPrice) ==
    [strike |-> ge.strike,
     exposure |-> ge.putGamma,
     rawExposure |-> ge.putGamma,
     distance |-> MathAbs(JsSub(ge.strike, currentPrice))]

\* A comparator that also moves the later of two equal exposures forward.
ExposureAfterOrTied(a, b) == JsGe(JsSub(b.exposure, a.exposure), Zero)

\* The comparator (a, b) => b.exposure - a.exposure; a NaN result counts as 0.
ExposureAfter(a, b) == JsGt(JsSub(b.exposure, a.exposure), Zero)

RECURSIVE InsertByExposure(_, _)
InsertByExposure(sorted, c) ==
    IF sorted = <<>> THEN <<c>>
    ELSE LET last == sorted[Len(sorted)]
         IN IF ExposureAfter(last, c)
            THEN Append(InsertByExposure(SubSeq(sorted, 1, Len(sorted) - 1), c), last)
            ELSE Append(sorted, c)

\* candidates.sort((a, b) => b.exposure - a.exposure): stable, descending.
RECURSIVE SortByExposure(_)
SortByExposure(candidates) ==
    IF candidates = <<>> THEN <<>>
    ELSE InsertByExposure(SortByExposure(SubSeq(candidates, 1, Len(candidates) - 1)),
                          candidates[Len(candidates)])

\* Every candidate, whatever its share of the total.
EveryCandidate(candidates, threshold) == candidates

\* The candidates whose exposure does not exceed the threshold.
InsignificantCandidates(candidates, threshold) ==
    LET below(c) == JsLe(c.exposure, threshold) IN SelectSeq(candidates, below)

\* candidates.filter(c => c.exposure >= threshold)
SignificantCandidates(candidates, threshold) ==
    LET atLeast(c) == JsGe(c.exposure, threshold) IN SelectSeq(candidates, atLeast)

\* The whole array, whatever maxWalls is.
SliceAll(values, maxWalls) == values

\* values.slice(0, maxWalls), maxWalls a whole number >= 0
SliceFirst(values, maxWalls) ==
    SubSeq(values, 1, IF maxWalls < Len(values) THEN maxWalls ELSE Len(values))

\* The tail of findCallWalls and findPutWalls: the early return on no
\* candidates, the threshold, the filter, the slice and the map to walls.
WallsOf(candidates, wallType, minSignificanceThreshold, maxWalls) ==
    IF Len(candidates) = 0 THEN <<>>
    ELSE LET totalExposure ==
                 SumSeq([i \in DOMAIN candidates |-> candidates[i].exposure])
             threshold == JsMul(totalExposure, minSignificanceThreshold)
             kept == SliceFirst(SignificantCandidates(candidates, threshold), maxWalls)
         IN [index \in DOMAIN kept |->
                [strike |-> kept[index].strike,
                 exposureValue |-> kept[index].rawExposure,
                 wallType |-> wallType,
                 distanceFromSpot |-> kept[index].distance,
                 significanceRank |-> index]]

\* findCallWalls(gammaExposures, currentPrice, maxWalls)
findCallWalls(minSignificanceThreshold, gammaExposures, currentPrice, maxWalls) ==
    LET isCall(ge) == JsLt(ge.callGamma, Zero)
        filtered == SelectSeq(gammaExposures, isCall)
        callCandidates ==
            SortByExposure([i \in DOMAIN filtered |-> CallCandidate(filtered[i], currentPrice)])
    IN WallsOf(callCandidates, "call_wall", minSignificanceThreshold, maxWalls)

\* findPutWalls(gammaExposures, currentPrice, maxWalls)
findPutWalls(minSignificanceThreshold, gammaExposures, currentPrice, maxWalls) ==
    LET isPut(ge) == JsGt(ge.putGamma, Zero)
        filtered == SelectSeq(gammaExposures, isPut)
        putCandidates ==
            SortByExposure([i \in DOMAIN filtered |-> PutCandidate(filtered[i], currentPrice)])
    IN WallsOf(putCandidates, "put_wall", minSignificanceThreshold, maxWalls)

\* findAllWalls(gammaExposures, currentPrice, maxWallsPerType)
findAllWalls(minSignificanceThreshold, gammaExposures, currentPrice, maxWallsPerType) ==
    [callWalls |-> findCallWalls(minSignificanceThreshold, gammaExposures, currentPrice,
                                 maxWallsPerType),
     putWalls |-> findPutWalls(minSignificanceThreshold, gammaExposures, currentPrice,
                               maxWallsPerType)]

-----------------------------------------------------------------------------
(* ExpectedMoveCalculator *)

\* A two-standard-deviation move taken from the 95% quantile, 1.96.
MoveByQuantile(expectedMove1SD) == JsMul(expectedMove1SD, Dec(196, 100))

\* const expectedMove2SD = expectedMove1SD * 2
TwoSD(expectedMove1SD) == JsMul(expectedMove1SD, Num(2))

\* calculateExpectedMove(currentPrice, impliedVolatility, daysToExpiry)
calculateExpectedMove(currentPrice, impliedVolatility, daysToExpiry) ==
    LET timeFactor == MathSqrt(JsDiv(daysToExpiry, Num(DaysPerYear)))
        expectedMove1SD == JsMul(JsMul(currentPrice, impliedVolatility), timeFactor)
        expectedMove2SD == TwoSD(expectedMove1SD)
    IN [currentPrice |-> currentPrice,
        impliedVolatility |-> impliedVolatility,
        ivPercentage |-> JsMul(impliedVolatility, Num(100)),
        daysToExpiry |-> daysToExpiry,
        expectedMove1SD |-> expectedMove1SD,
        expectedMove2SD |-> expectedMove2SD,
        movePct1SD |-> JsMul(JsDiv(expectedMove1SD, currentPrice), Num(100)),
        movePct2SD |-> JsMul(JsDiv(expectedMove2SD, currentPrice), Num(100)),
        upper1SD |-> JsAdd(currentPrice, expectedMove1SD),
        lower1SD |-> JsSub(currentPrice, expectedMove1SD),
        upper2SD |-> JsAdd(currentPrice, expectedMove2SD),
        lower2SD |-> JsSub(currentPrice, expectedMove2SD)]

\* window.currentPrice when no script has set it.
Undefined == [k |-> "undefined", m |-> 0, e |-> 0]

FallbackPrice == 450
AtmContracts == 10

\* window.currentPrice || 450: undefined, NaN and 0 are falsy.
PriceOrFallback(windowCurrentPrice) ==
    IF windowCurrentPrice = Undefined \/ IsNaN(windowCurrentPrice)
           \/ windowCurrentPrice = Zero
    THEN Num(FallbackPrice)
    ELSE windowCurrentPrice

\* The comparator (a, b) => a.distance - b.distance; a NaN result counts as 0.
DistanceAfter(a, b) == JsGt(JsSub(a.distance, b.distance), Zero)

RECURSIVE InsertByDistance(_, _)
InsertByDistance(sorted, c) ==
    IF sorted = <<>> THEN <<c>>
    ELSE LET last == sorted[Len(sorted)]
         IN IF DistanceAfter(last, c)
            THEN Append(InsertByDistance(SubSeq(sorted, 1, Len(sorted) - 1), c), last)
            ELSE Append(sorted, c)

\* contractsWithDistance.sort((a, b) => a.distance - b.distance): stable.
RECURSIVE SortByDistance(_)
SortByDistance(items) ==
    IF items = <<>> THEN <<>>
    ELSE InsertByDistance(SortByDistance(SubSeq(items, 1, Len(items) - 1)),
                          items[Len(items)])

\* The body of getAverageIVAndDTE with strike distances measured from price.
AverageIVAndDTEFrom(contracts, price) ==
    IF Len(contracts) = 0 THEN [atmIV |-> Zero, overallAvgIV |-> Zero, avgDTE |-> Zero]
    ELSE LET n == Len(contracts)
             totalIV == SumSeq([i \in 1..n |-> contracts[i].impliedVolatility])
             contractsWithDistance ==
                 SortByDistance([i \in 1..n |->
                                   [contract |-> contracts[i],
                                    distance |-> MathAbs(JsSub(contracts[i].strike, price))]])
             numATMContracts == IF AtmContracts < n THEN AtmContracts ELSE n
             atmContracts == SubSeq(contractsWithDistance, 1, numATMContracts)
             atmIVSum == SumSeq([i \in 1..numATMContracts |->
                                   atmContracts[i].contract.impliedVolatility])
             totalDTE == SumSeq([i \in 1..n |-> contracts[i].daysToExpiry])
         IN [atmIV |-> JsDiv(atmIVSum, Num(numATMContracts)),
             overallAvgIV |-> JsDiv(totalIV, Num(n)),
             avgDTE |-> JsDiv(totalDTE, Num(n))]

\* getAverageIVAndDTE(contracts), which reads window.currentPrice.
getAverageIVAndDTE(contracts, windowCurrentPrice) ==
    AverageIVAndDTEFrom(contracts, PriceOrFallback(windowCurrentPrice))

-----------------------------------------------------------------------------
(* One analysis: parse, aggregateByStrike contract by contract, then the
   metrics and the environment, in the order of runAnalysis. *)

VARIABLES
    rows,              \* the rows of the uploaded file
    spotPrice,         \* currentPrice
    riskFreeRate,      \* gammaCalc.riskFreeRate
    pc,                \* where the analysis stands
    contracts,         \* optionsData
    idx,               \* contracts the forEach of aggregateByStrike has folded
    exposures,         \* the exposure computed for each folded contract
    strikeMap,         \* the Map of aggregateByStrike
    gammaExposures,    \* the array aggregateByStrike returned
    metrics,           \* what calculateAllMetrics returned
    gammaEnvironment,  \* what calculateGammaEnvironment returned
    thrown,            \* the error the last call threw, "none" if it returned
    minSignificanceThreshold,  \* wallAnalyzer.minSignificanceThreshold
    maxWalls,          \* the maxWalls the wall finders are called with
    walls,             \* what findAllWalls returned
    windowCurrentPrice,  \* window.currentPrice
    ivStats,           \* what getAverageIVAndDTE returned
    expectedMove,      \* what calculateExpectedMove returned
    pending,           \* the files being read, in the order they were chosen
    selected           \* the file of the latest handleFileUpload

vars == <<rows, spotPrice, riskFreeRate, pc, contracts, idx, exposures, strikeMap,
          gammaExposures, metrics, gammaEnvironment, thrown,
          minSignificanceThreshold, maxWalls, walls,
          windowCurrentPrice, ivStats, expectedMove, pending, selected>>

wallVars == <<minSignificanceThreshold, maxWalls, walls>>
moveVars == <<windowCurrentPrice, ivStats, expectedMove>>
uploadVars == <<pending, selected>>

\* No file: the file input before the first selection.
NoFile == [name |-> "none", rows |-> <<>>]

\* new WallAnalyzer(): minSignificanceThreshold = 0.05
DefaultThreshold == Dec(5, 100)

\* findAllWalls(gammaExposures, currentPrice, maxWallsPerType = 5)
DefaultMaxWalls == 5

Strikes == {Num(100), Num(105)}
OptionTypes == {"call", "put"}
OpenInterests == {Num(0), Num(2), Num(3)}
ImpliedVols == {Dec(20, 100)}
DaysToExpiry == {Num(30)}
SpotPrices == {Num(100)}

\* Rows of well-formed contracts (3. DATA MODEL of the specification).
ValidRows ==
    [strike : Strikes, optionType : OptionTypes, openInterest : OpenInterests,
     rawIV : ImpliedVols, daysToExpiry : DaysToExpiry]

SeqsUpTo(S, n) == UNION {[1..k -> S] : k \in 0..n}

InitWith(Rows) ==
    /\ rows \in SeqsUpTo(Rows, MaxContracts)
    /\ spotPrice \in SpotPrices
    /\ riskFreeRate = Dec(5, 100)
    /\ pc = "parse"
    /\ contracts = <<>>
    /\ idx = 0
    /\ exposures = <<>>
    /\ strikeMap = <<>>
    /\ gammaExposures = <<>>
    /\ metrics = <<>>
    /\ gammaEnvironment = <<>>
    /\ thrown = "none"
    /\ minSignificanceThreshold = DefaultThreshold
    /\ maxWalls = DefaultMaxWalls
    /\ walls = <<>>
    /\ windowCurrentPrice = Undefined
    /\ ivStats = <<>>
    /\ expectedMove = <<>>
    /\ pending = <<>>
    /\ selected = NoFile

Init == InitWith(ValidRows)

\* optionsData = csvParser.parse(csvText)
Parse ==
    /\ pc = "parse"
    /\ contracts' = parse(rows)
    /\ pc' = "fold"
    /\ UNCHANGED <<wallVars, moveVars, uploadVars>>
    /\ UNCHANGED <<rows, spotPrice, riskFreeRate, idx, exposures, strikeMap,
                   gammaExposures, metrics, gammaEnvironment, thrown>>

\* runAnalysis: if (optionsData.length === 0) return;
RunAnalysisReturn ==
    /\ pc = "fold"
    /\ contracts = <<>>
    /\ pc' = "returned"
    /\ thrown' = "none"
    /\ UNCHANGED <<wallVars, moveVars, uploadVars>>
    /\ UNCHANGED <<rows, spotPrice, riskFreeRate, contracts, idx, exposures, strikeMap,
                   gammaExposures, metrics, gammaEnvironment>>

\* One call of the forEach callback of aggregateByStrike.
ForEachStep ==
    /\ pc = "fold"
    /\ idx < Len(contracts)
    /\ LET exposure == calculateGammaExposure(riskFreeRate, contracts[idx + 1], spotPrice)
       IN /\ exposures' = Append(exposures, exposure)
          /\ strikeMap' = FoldExposure(strikeMap, exposure)
    /\ idx' = idx + 1
    /\ UNCHANGED <<wallVars, moveVars, uploadVars>>
    /\ UNCHANGED <<rows, spotPrice, riskFreeRate, pc, contracts, gammaExposures,
                   metrics, gammaEnvironment, thrown>>

\* return Array.from(strikeMap.values()).sort(...)
ReturnSorted ==
    /\ pc = "fold"
    /\ idx = Len(contracts)
    /\ gammaExposures' = SortByStrike(strikeMap)
    /\ pc' = "aggregated"
    /\ thrown' = "none"
    /\ UNCHANGED <<wallVars, moveVars, uploadVars>>
    /\ UNCHANGED <<rows, spotPrice, riskFreeRate, contracts, idx, exposures, strikeMap,
                   metrics, gammaEnvironment>>

\* walls = wallAnalyzer.findAllWalls(gammaExposures, currentPrice);
\* const metrics = metricsCalc.calculateAllMetrics(gammaExposures)
CalculateAllMetrics ==
    /\ pc = "aggregated"
    /\ walls' = findAllWalls(minSignificanceThreshold, gammaExposures, spotPrice, maxWalls)
    /\ metrics' = calculateAllMetrics(gammaExposures)
    /\ pc' = "metrics"
    /\ thrown' = "none"
    /\ UNCHANGED <<minSignificanceThreshold, maxWalls, moveVars, uploadVars>>
    /\ UNCHANGED <<rows, spotPrice, riskFreeRate, contracts, idx, exposures, strikeMap,
                   gammaExposures, gammaEnvironment>>

\* gammaEnvironment = metricsCalc.calculateGammaEnvironment(gammaExposures, currentPrice)
CalculateGammaEnvironment ==
    /\ pc = "metrics"
    /\ gammaEnvironment' = calculateGammaEnvironment(gammaExposures, spotPrice)
    /\ pc' = "environment"
    /\ thrown' = "none"
    /\ UNCHANGED <<wallVars, moveVars, uploadVars>>
    /\ UNCHANGED <<rows, spotPrice, riskFreeRate, contracts, idx, exposures, strikeMap,
                   gammaExposures, metrics>>

Next ==
    \/ Parse
    \/ RunAnalysisReturn
    \/ ForEachStep
    \/ ReturnSorted
    \/ CalculateAllMetrics
    \/ CalculateGammaEnvironment

Spec == Init /\ [][Next]_vars

-----------------------------------------------------------------------------
(* Rows as a file can hold them: a strike of 0, a negative open interest, an
   IV given as a percentage, as 0 or as text that parseFloat turns to NaN. *)

\* A raw IV of 5: not above 10, so parse reads it as the decimal 5 (500%).
HighIVRow ==
    [strike |-> Num(100), optionType |-> "call", openInterest |-> Num(1),
     rawIV |-> Num(5), daysToExpiry |-> Num(30)]

\* A well-formed call at a second strike.
SecondStrikeRow ==
    [strike |-> Num(105), optionType |-> "call", openInterest |-> Num(1),
     rawIV |-> Dec(20, 100), daysToExpiry |-> Num(30)]

RawRows ==
    [strike : {Num(100), Zero}, optionType : {"call"}, openInterest : {Num(1), Num(-1)},
     rawIV : {Dec(20, 100), Num(25), Zero, NaN}, daysToExpiry : DaysToExpiry]
        \cup {HighIVRow, SecondStrikeRow}

InitRaw == InitWith(RawRows)

SpecRaw == InitRaw /\ [][Next]_vars

-----------------------------------------------------------------------------
(* The wall finders, the metrics and the environment on aggregate lists of
   their own: the lists aggregateByStrike can return (ascending strikes,
   callGamma <= 0 <= putGamma, netGamma their sum), with whole-number
   exposures so that sums are exact. *)

MaxStrikes == 3

Aggregate(strike, callGamma, putGamma, totalOI) ==
    [strike |-> Num(strike), callGamma |-> Num(callGamma), putGamma |-> Num(putGamma),
     netGamma |-> JsAdd(Num(callGamma), Num(putGamma)), totalOI |-> Num(totalOI)]

\* The lists of up to n aggregates at the strikes 100, 101, ..., each with
\* one of the given <<callGamma, putGamma, totalOI>>.
AggregateLists(Options, n) ==
    UNION {{[i \in 1..k |-> Aggregate(99 + i, f[i][1], f[i][2], f[i][3])] :
               f \in [1..k -> Options]} : k \in 0..n}

\* One strike with 90% of the call exposure and nine with equal shares of the rest.
DominantStrike ==
    [i \in 1..10 |-> IF i = 4 THEN Aggregate(99 + i, -81, 0, 10)
                     ELSE Aggregate(99 + i, -1, 0, 10)]

\* Twenty-one strikes with equal call and equal put exposure: each holds
\* 1/21 of the total, less than the default threshold of 0.05.
EqualShares == [i \in 1..21 |-> Aggregate(99 + i, -1, 1, 10)]

\* Net signs +, +, -, + at the strikes 100, 101, 102, 103.
Oscillating ==
    <<Aggregate(100, 0, 5, 1), Aggregate(101, -1, 5, 1),
      Aggregate(102, -5, 1, 1), Aggregate(103, 0, 1, 1)>>

WallOptions == {<<c, p, 10>> : c \in {0, -1, -40}, p \in {0, 1, 40}}
Thresholds == {Dec(5, 100), Dec(50, 100)}
MaxWallsChoices == {2, DefaultMaxWalls}

EnvironmentOptions ==
    {<<0, 0, oi>> : oi \in {0, 1}}
        \cup {<<-c, 0, oi>> : c \in {1, 5}, oi \in {0, 1}}
        \cup {<<0, p, oi>> : p \in {1, 5}, oi \in {0, 1}}

InitAnalysis(Lists, Prices, Sigs, Maxes) ==
    /\ gammaExposures \in Lists
    /\ spotPrice \in Prices
    /\ minSignificanceThreshold \in Sigs
    /\ maxWalls \in Maxes
    /\ riskFreeRate = Dec(5, 100)
    /\ pc = "aggregated"
    /\ rows = <<>>
    /\ contracts = <<>>
    /\ idx = 0
    /\ exposures = <<>>
    /\ strikeMap = <<>>
    /\ metrics = <<>>
    /\ gammaEnvironment = <<>>
    /\ thrown = "none"
    /\ walls = <<>>
    /\ windowCurrentPrice = Undefined
    /\ ivStats = <<>>
    /\ expectedMove = <<>>
    /\ pending = <<>>
    /\ selected = NoFile

InitWalls ==
    InitAnalysis(AggregateLists(WallOptions, MaxStrikes) \cup {DominantStrike},
                 {Num(101)}, Thresholds, MaxWallsChoices)

InitEnvironment ==
    InitAnalysis(AggregateLists(EnvironmentOptions, MaxStrikes) \cup {Oscillating},
                 {Num(100)}, {DefaultThreshold}, {DefaultMaxWalls})

\* Lists of small and large shares, and the list of twenty-one equal shares,
\* at the default threshold with one wall or the default number asked for.
ShareOptions == {<<0, 0, 10>>, <<-1, 1, 10>>, <<-40, 1, 10>>, <<-1, 40, 10>>}

InitShares ==
    InitAnalysis(AggregateLists(ShareOptions, MaxStrikes) \cup {EqualShares},
                 {Num(101)}, {DefaultThreshold}, {1, DefaultMaxWalls})

\* runAnalysis from the aggregates on.
NextAnalysis ==
    \/ CalculateAllMetrics
    \/ CalculateGammaEnvironment

SpecWalls == InitWalls /\ [][NextAnalysis]_vars

SpecEnvironment == InitEnvironment /\ [][NextAnalysis]_vars

SpecShares == InitShares /\ [][NextAnalysis]_vars

-----------------------------------------------------------------------------
(* displayExpectedMove: the ATM statistics of optionsData, then the expected
   move at currentPrice.  The contract lists hold copies of a contract at the
   strike 100 and of one at the strike 450, more than the ten the ATM average
   takes. *)

MaxCopies == 6

NearContract ==
    [strike |-> Num(100), optionType |-> "call", openInterest |-> Num(1),
     impliedVolatility |-> Dec(20, 100), daysToExpiry |-> Num(30)]

FarContract ==
    [strike |-> Num(450), optionType |-> "put", openInterest |-> Num(1),
     impliedVolatility |-> Dec(40, 100), daysToExpiry |-> Num(7)]

Copies(contract, n) == [i \in 1..n |-> contract]

ContractLists ==
    UNION {{Copies(NearContract, i) \o Copies(FarContract, j),
            Copies(FarContract, j) \o Copies(NearContract, i)} :
               i \in 0..MaxCopies, j \in 0..MaxCopies}

InitMove ==
    /\ contracts \in ContractLists
    /\ spotPrice \in {Num(100), Num(450)}
    /\ windowCurrentPrice \in {Undefined, Num(100), Num(450)}
    /\ pc = "display"
    /\ ivStats = <<>>
    /\ expectedMove = <<>>
    /\ rows = <<>>
    /\ riskFreeRate = Dec(5, 100)
    /\ idx = 0
    /\ exposures = <<>>
    /\ strikeMap = <<>>
    /\ gammaExposures = <<>>
    /\ metrics = <<>>
    /\ gammaEnvironment = <<>>
    /\ thrown = "none"
    /\ minSignificanceThreshold = DefaultThreshold
    /\ maxWalls = DefaultMaxWalls
    /\ walls = <<>>
    /\ pending = <<>>
    /\ selected = NoFile

\* if (!optionsData || optionsData.length === 0) return;
DisplayExpectedMoveReturn ==
    /\ pc = "display"
    /\ contracts = <<>>
    /\ pc' = "notDisplayed"
    /\ UNCHANGED <<wallVars, moveVars, uploadVars>>
    /\ UNCHANGED <<rows, spotPrice, riskFreeRate, contracts, idx, exposures, strikeMap,
                   gammaExposures, metrics, gammaEnvironment, thrown>>

\* const { atmIV, overallAvgIV, avgDTE } = expectedMoveCalc.getAverageIVAndDTE(optionsData)
GetAverageIVAndDTE ==
    /\ pc = "display"
    /\ contracts # <<>>
    /\ ivStats' = getAverageIVAndDTE(contracts, windowCurrentPrice)
    /\ pc' = "stats"
    /\ UNCHANGED <<wallVars, windowCurrentPrice, expectedMove, uploadVars>>
    /\ UNCHANGED <<rows, spotPrice, riskFreeRate, contracts, idx, exposures, strikeMap,
                   gammaExposures, metrics, gammaEnvironment, thrown>>

\* const move = expectedMoveCalc.calculateExpectedMove(currentPrice, atmIV, avgDTE)
CalculateExpectedMove ==
    /\ pc = "stats"
    /\ expectedMove' = calculateExpectedMove(spotPrice, ivStats.atmIV, ivStats.avgDTE)
    /\ pc' = "move"
    /\ UNCHANGED <<wallVars, windowCurrentPrice, ivStats, uploadVars>>
    /\ UNCHANGED <<rows, spotPrice, riskFreeRate, contracts, idx, exposures, strikeMap,
                   gammaExposures, metrics, gammaEnvironment, thrown>>

NextMove ==
    \/ DisplayExpectedMoveReturn
    \/ GetAverageIVAndDTE
    \/ CalculateExpectedMove

SpecMove == InitMove /\ [][NextMove]_vars

-----------------------------------------------------------------------------
(* The operations of the engine called one at a time, in any order, on one
   contract list and on the aggregate list made from it.  An array is passed
   by reference, so each call leaves in the caller's array what its
   statements leave there. *)

MaxEngineContracts == 2

EngineRows ==
    [strike : Strikes, optionType : OptionTypes, openInterest : {Num(2), Num(3)},
     rawIV : ImpliedVols, daysToExpiry : DaysToExpiry]

\* aggregateByStrike reads the contracts in a forEach; the buckets it adds
\* to are objects it created for its Map.
ContractsAfterAggregate(list) == list

\* getAverageIVAndDTE: reduce and map read the contracts; the sort reorders
\* contractsWithDistance, the array map() returned.
ContractsAfterStatistics(list) == list

\* The aggregates as a gammaExposures.sort((a, b) => |b.callGamma| -
\* |a.callGamma|) would leave them.
AggregatesSortedInPlace(list) ==
    LET keyed == SortByExposure([i \in DOMAIN list |->
                                   [exposure |-> MathAbs(list[i].callGamma),
                                    aggregate |-> list[i]]])
    IN [i \in DOMAIN list |-> keyed[i].aggregate]

\* findCallWalls and findPutWalls: filter() and map() return new arrays and
\* the sort reorders the one map() returned; nothing assigns to an aggregate.
AggregatesAfterWalls(list) == list

\* calculateAllMetrics and calculateGammaEnvironment: reduce, map, filter
\* and indexed reads.
AggregatesAfterMetrics(list) == list

InitEngine ==
    /\ rows \in SeqsUpTo(EngineRows, MaxEngineContracts)
    /\ contracts = parse(rows)
    /\ spotPrice = Num(100)
    /\ riskFreeRate = Dec(5, 100)
    /\ pc = "engine"
    /\ idx = 0
    /\ exposures = <<>>
    /\ strikeMap = <<>>
    /\ gammaExposures = <<>>
    /\ metrics = <<>>
    /\ gammaEnvironment = <<>>
    /\ thrown = "none"
    /\ minSignificanceThreshold = DefaultThreshold
    /\ maxWalls = DefaultMaxWalls
    /\ walls = <<>>
    /\ windowCurrentPrice = Undefined
    /\ ivStats = <<>>
    /\ expectedMove = <<>>
    /\ pending = <<>>
    /\ selected = NoFile

\* gammaCalc.aggregateByStrike(contracts, spotPrice)
AggregateByStrikeCall ==
    /\ pc = "engine"
    /\ gammaExposures' = aggregateByStrike(riskFreeRate, contracts, spotPrice)
    /\ contracts' = ContractsAfterAggregate(contracts)
    /\ pc' = "engineAggregated"
    /\ UNCHANGED <<wallVars, moveVars, uploadVars>>
    /\ UNCHANGED <<rows, spotPrice, riskFreeRate, idx, exposures, strikeMap,
                   metrics, gammaEnvironment, thrown>>

\* wallAnalyzer.findAllWalls(gammaExposures, currentPrice)
FindAllWallsCall ==
    /\ pc = "engineAggregated"
    /\ walls' = findAllWalls(minSignificanceThreshold, gammaExposures, spotPrice, maxWalls)
    /\ gammaExposures' = AggregatesAfterWalls(gammaExposures)
    /\ UNCHANGED <<minSignificanceThreshold, maxWalls, moveVars, uploadVars>>
    /\ UNCHANGED <<rows, spotPrice, riskFreeRate, pc, contracts, idx, exposures,
                   strikeMap, metrics, gammaEnvironment, thrown>>

\* metricsCalc.calculateAllMetrics(gammaExposures)
CalculateAllMetricsCall ==
    /\ pc = "engineAggregated"
    /\ metrics' = calculateAllMetrics(gammaExposures)
    /\ gammaExposures' = AggregatesAfterMetrics(gammaExposures)
    /\ UNCHANGED <<wallVars, moveVars, uploadVars>>
    /\ UNCHANGED <<rows, spotPrice, riskFreeRate, pc, contracts, idx, exposures,
                   strikeMap, gammaEnvironment, thrown>>

\* metricsCalc.calculateGammaEnvironment(gammaExposures, currentPrice)
CalculateGammaEnvironmentCall ==
    /\ pc = "engineAggregated"
    /\ gammaEnvironment' = calculateGammaEnvironment(gammaExposures, spotPrice)
    /\ gammaExposures' = AggregatesAfterMetrics(gammaExposures)
    /\ UNCHANGED <<wallVars, moveVars, uploadVars>>
    /\ UNCHANGED <<rows, spotPrice, riskFreeRate, pc, contracts, idx, exposures,
                   strikeMap, metrics, thrown>>

\* expectedMoveCalc.getAverageIVAndDTE(contracts)
GetAverageIVAndDTECall ==
    /\ pc \in {"engine", "engineAggregated"}
    /\ ivStats' = getAverageIVAndDTE(contracts, windowCurrentPrice)
    /\ contracts' = ContractsAfterStatistics(contracts)
    /\ UNCHANGED <<wallVars, windowCurrentPrice, expectedMove, uploadVars>>
    /\ UNCHANGED <<rows, spotPrice, riskFreeRate, pc, idx, exposures, strikeMap,
                   gammaExposures, metrics, gammaEnvironment, thrown>>

NextEngine ==
    \/ AggregateByStrikeCall
    \/ FindAllWallsCall
    \/ CalculateAllMetricsCall
    \/ CalculateGammaEnvironmentCall
    \/ GetAverageIVAndDTECall

SpecEngine == InitEngine /\ [][NextEngine]_vars

-----------------------------------------------------------------------------
(* The page: its global state and its event handlers.  A handler runs to
   completion before the next event is taken, so each is one step; a
   FileReader fires onload some time after handleFileUpload started it, in
   no fixed order among several readers. *)

\* let currentPrice = 450
InitialPrice == 450

MaxPending == 2

\* Math.round: the nearest integer, a half rounded up.
MathRound(x) ==
    IF ~IsFinite(x) \/ x.e >= 0 THEN x
    ELSE Num((2 * x.m + 2^(-x.e)) \div 2^(1 - x.e))

\* The call and the put generateSampleData pushes for one strike; draw holds
\* the values Math.random gave their open interest and implied volatility.
SamplePair(strike, daysToExpiry, draw) ==
    <<[strike |-> strike, optionType |-> "call", openInterest |-> draw.callOI,
       impliedVolatility |-> draw.callIV, daysToExpiry |-> daysToExpiry],
      [strike |-> strike, optionType |-> "put", openInterest |-> draw.putOI,
       impliedVolatility |-> draw.putIV, daysToExpiry |-> daysToExpiry]>>

\* The loop of generateSampleData from iteration i on.
RECURSIVE SampleFrom(_, _, _, _, _, _)
SampleFrom(i, numStrikes, startStrike, strikeSpacing, daysToExpiry, draws) ==
    IF i >= numStrikes THEN <<>>
    ELSE LET strike == JsMul(MathRound(JsDiv(JsAdd(startStrike,
                                                   JsMul(Num(i), strikeSpacing)),
                                             Num(5))),
                             Num(5))
             rest == SampleFrom(i + 1, numStrikes, startStrike, strikeSpacing,
                                daysToExpiry, draws)
         IN IF JsLe(strike, Zero) THEN rest
            ELSE SamplePair(strike, daysToExpiry, draws[i + 1]) \o rest

\* dataGenerator.generateSampleData(spotPrice, numStrikes, daysToExpiry)
generateSampleData(spot, numStrikes, daysToExpiry, draws) ==
    LET strikeSpacing == JsMul(spot, Dec(2, 100))
        startStrike == JsSub(spot, JsMul(JsDiv(Num(numStrikes), Num(2)), strikeSpacing))
    IN SampleFrom(0, numStrikes, startStrike, strikeSpacing, daysToExpiry, draws)

\* (row.option_type || row.type).toLowerCase() throws a TypeError on a row
\* that has neither column filled.
ParseThrows(fileRows) == \E i \in DOMAIN fileRows : fileRows[i].optionType = ""

\* The comparator (a, b) => a.impliedVolatility - b.impliedVolatility.
VolatilityAfter(a, b) == JsGt(JsSub(a.impliedVolatility, b.impliedVolatility), Zero)

RECURSIVE InsertByVolatility(_, _)
InsertByVolatility(sorted, c) ==
    IF sorted = <<>> THEN <<c>>
    ELSE LET last == sorted[Len(sorted)]
         IN IF VolatilityAfter(last, c)
            THEN Append(InsertByVolatility(SubSeq(sorted, 1, Len(sorted) - 1), c), last)
            ELSE Append(sorted, c)

\* [...optionsData].sort((a, b) => a.impliedVolatility - b.impliedVolatility)
RECURSIVE SortByVolatility(_)
SortByVolatility(list) ==
    IF list = <<>> THEN <<>>
    ELSE InsertByVolatility(SortByVolatility(SubSeq(list, 1, Len(list) - 1)),
                            list[Len(list)])

\* The price handleFileUpload detects in a non-empty optionsData.
estimatedPrice(optionsData) ==
    LET atmStrike == SortByVolatility(optionsData)[1].strike
        strikes == [i \in DOMAIN optionsData |-> optionsData[i].strike]
        minStrike == MathMin(strikes)
        maxStrike == MathMax(strikes)
        midStrike == JsDiv(JsAdd(minStrike, maxStrike), Num(2))
    IN IF JsGt(atmStrike, JsMul(minStrike, Dec(12, 10)))
            /\ JsLt(atmStrike, JsMul(maxStrike, Dec(8, 10)))
       THEN atmStrike
       ELSE midStrike

\* runAnalysis with the walls found before the aggregates are replaced.
RunAnalysisWallsFirst ==
    IF contracts' = <<>>
    THEN UNCHANGED <<gammaExposures, walls, metrics, gammaEnvironment>>
    ELSE /\ gammaExposures' = aggregateByStrike(riskFreeRate', contracts', spotPrice')
         /\ walls' = findAllWalls(minSignificanceThreshold, gammaExposures, spotPrice',
                                  maxWalls)
         /\ metrics' = calculateAllMetrics(gammaExposures')
         /\ gammaEnvironment' = calculateGammaEnvironment(gammaExposures', spotPrice')

\* runAnalysis(), called by a handler once it has assigned the globals it
\* changes: it reads optionsData, currentPrice and gammaCalc.riskFreeRate as
\* the handler left them, and gammaExposures as it has just assigned it.
RunAnalysis ==
    IF contracts' = <<>>
    THEN UNCHANGED <<gammaExposures, walls, metrics, gammaEnvironment>>
    ELSE /\ gammaExposures' = aggregateByStrike(riskFreeRate', contracts', spotPrice')
         /\ walls' = findAllWalls(minSignificanceThreshold, gammaExposures', spotPrice',
                                  maxWalls)
         /\ metrics' = calculateAllMetrics(gammaExposures')
         /\ gammaEnvironment' = calculateGammaEnvironment(gammaExposures', spotPrice')

FileRow(strike, optionType, openInterest, rawIV) ==
    [strike |-> Num(strike), optionType |-> optionType,
     openInterest |-> Num(openInterest), rawIV |-> rawIV, daysToExpiry |-> Num(30)]

\* Two strikes of equal IV: the detected price is the middle of the range.
FileA ==
    [name |-> "A",
     rows |-> <<FileRow(100, "call", 2, Dec(20, 100)), FileRow(105, "put", 3, Dec(20, 100))>>]

\* The lowest IV at a strike well inside the range: the detected price is
\* that strike.
FileB ==
    [name |-> "B",
     rows |-> <<FileRow(100, "put", 3, Dec(40, 100)), FileRow(130, "call", 2, Dec(20, 100)),
                FileRow(170, "call", 2, Dec(40, 100))>>]

\* A file whose only row has a strike of 0: parse returns no contract.
FileNoContracts == [name |-> "noContracts", rows |-> <<FileRow(0, "call", 2, Dec(20, 100))>>]

\* A file with a row that has no option type: parse throws.
FileMalformed == [name |-> "malformed", rows |-> <<FileRow(100, "", 2, Dec(20, 100))>>]

\* The files chosen while prices and rates are typed, and those chosen when
\* only files are chosen.
Files == {FileA, FileNoContracts, FileMalformed}
UploadFiles == Files \cup {FileB}

\* parseFloat(e.target.value) of the price field.
PriceInputs == {Num(100), Num(1)}

\* parseFloat(e.target.value) / 100 of the rate slider.
RateInputs == {Dec(3, 100)}

\* What Math.random gives one generated strike.
SampleDraws ==
    [callOI : {Num(1000), Num(2000)}, putOI : {Num(1000)},
     callIV : {Dec(20, 100)}, putIV : {Dec(20, 100)}]

\* parseInt of the numStrikes and daysToExpiry sliders.
NumStrikesChoices == {1}
SampleDaysToExpiry == Num(30)

InitApp ==
    /\ contracts = <<>>
    /\ gammaExposures = <<>>
    /\ walls = <<>>
    /\ gammaEnvironment = <<>>
    /\ spotPrice = Num(InitialPrice)
    /\ riskFreeRate = Dec(5, 100)
    /\ pending = <<>>
    /\ selected = NoFile
    /\ pc = "app"
    /\ rows = <<>>
    /\ idx = 0
    /\ exposures = <<>>
    /\ strikeMap = <<>>
    /\ metrics = <<>>
    /\ thrown = "none"
    /\ minSignificanceThreshold = DefaultThreshold
    /\ maxWalls = DefaultMaxWalls
    /\ windowCurrentPrice = Undefined
    /\ ivStats = <<>>
    /\ expectedMove = <<>>

appFrame == <<rows, pc, idx, exposures, strikeMap, thrown, minSignificanceThreshold,
              maxWalls, moveVars>>

\* The input listener of the currentPrice field.
PriceInput ==
    /\ pc = "app"
    /\ \E price \in PriceInputs : spotPrice' = price
    /\ UNCHANGED <<contracts, riskFreeRate, uploadVars, appFrame>>
    /\ RunAnalysis

\* The input listener of the riskFreeRate slider.
RateInput ==
    /\ pc = "app"
    /\ \E rate \in RateInputs : riskFreeRate' = rate
    /\ UNCHANGED <<contracts, spotPrice, uploadVars, appFrame>>
    /\ RunAnalysis

\* generateSampleData()
GenerateSampleData ==
    /\ pc = "app"
    /\ \E numStrikes \in NumStrikesChoices : \E draws \in [1..numStrikes -> SampleDraws] :
           contracts' = generateSampleData(spotPrice, numStrikes, SampleDaysToExpiry, draws)
    /\ UNCHANGED <<spotPrice, riskFreeRate, uploadVars, appFrame>>
    /\ RunAnalysis

\* handleFileUpload(event) with file chosen: a reader is created and started.
UploadOf(file) ==
    /\ pc = "app"
    /\ Len(pending) < MaxPending
    /\ pending' = Append(pending, file)
    /\ selected' = file
    /\ UNCHANGED <<contracts, spotPrice, riskFreeRate, gammaExposures, walls, metrics,
                   gammaEnvironment, appFrame>>

\* A sequence without its i-th element.
RemoveAt(list, i) == SubSeq(list, 1, i - 1) \o SubSeq(list, i + 1, Len(list))

\* reader.onload of a reader that was started on file.
OnloadOf(file) ==
    /\ pc = "app"
    /\ \E i \in DOMAIN pending :
           /\ pending[i] = file
           /\ pending' = RemoveAt(pending, i)
    /\ UNCHANGED <<riskFreeRate, selected, appFrame>>
    /\ IF ParseThrows(file.rows)
       THEN UNCHANGED <<contracts, spotPrice, gammaExposures, walls, metrics,
                        gammaEnvironment>>
       ELSE /\ contracts' = parse(file.rows)
            /\ IF contracts' = <<>>
               THEN UNCHANGED <<spotPrice, gammaExposures, walls, metrics,
                                gammaEnvironment>>
               ELSE /\ spotPrice' = estimatedPrice(contracts')
                    /\ RunAnalysis

HandleFileUpload == \E file \in Files : UploadOf(file)

ReaderOnload == \E file \in Files : OnloadOf(file)

NextApp ==
    \/ PriceInput
    \/ RateInput
    \/ GenerateSampleData
    \/ HandleFileUpload
    \/ ReaderOnload

SpecApp == InitApp /\ [][NextApp]_vars

\* File selections and reader completions alone.
NextUploads ==
    \/ \E file \in UploadFiles : UploadOf(file)
    \/ \E file \in UploadFiles : OnloadOf(file)

SpecUploads == InitApp /\ [][NextUploads]_vars

-----------------------------------------------------------------------------
(* Helpers of the properties *)

\* The buckets that exist: those of the Map and those of the returned array.
Buckets == {strikeMap[i] : i \in DOMAIN strikeMap}
               \cup {gammaExposures[i] : i \in DOMAIN gammaExposures}

Aggregated == pc \in {"aggregated", "metrics", "environment"}

\* The integer a Number holds (open interest is a whole number).
IntOf(x) == IF x.e >= 0 THEN x.m * 2^x.e ELSE x.m \div 2^(-x.e)

RECURSIVE SumInt(_, _)
SumInt(f, S) == IF S = {} THEN 0
                ELSE LET i == CHOOSE j \in S : TRUE IN f[i] + SumInt(f, S \ {i})

\* The positions of the contracts at a strike.
AtStrike(strike) == {j \in DOMAIN contracts : contracts[j].strike = strike}

\* Contracts i and j differ in nothing but the option type, call and put.
CallPutPair(i, j) ==
    /\ contracts[i].optionType = "call"
    /\ contracts[j].optionType = "put"
    /\ [contracts[i] EXCEPT !.optionType = "put"] = contracts[j]

\* The permutations of 1..n, as sequences.
Perms(n) == {p \in [1..n -> 1..n] : \A i, j \in 1..n : p[i] = p[j] => i = j}

-----------------------------------------------------------------------------
(* Properties *)

\* C1: after every fold step of aggregateByStrike and in the list it returns,
\* each strike bucket has netGamma equal to callGamma + putGamma exactly.
Inv_C1_NetIsCallPlusPut ==
    \A b \in Buckets : b.netGamma = JsAdd(b.callGamma, b.putGamma)

\* A returned bucket that three contracts went into, calls and puts, with
\* exposures that are not zero.
Wit_C1_MixedBucket ==
    /\ pc = "aggregated"
    /\ \E i \in DOMAIN gammaExposures :
          /\ gammaExposures[i].callGamma # Zero
          /\ gammaExposures[i].putGamma # Zero
          /\ Cardinality(AtStrike(gammaExposures[i].strike)) = 3

\* C2: aggregateByStrike returns the same list for every order of the same
\* contracts at the same spot.
Claim_C2_OrderIndependent ==
    pc = "aggregated" =>
        \A p \in Perms(Len(contracts)) :
            aggregateByStrike(riskFreeRate,
                              [i \in 1..Len(contracts) |-> contracts[p[i]]],
                              spotPrice) = gammaExposures

\* C3: the returned list has one aggregate for each strike of the input and
\* no other, in strictly ascending strike order, and each totalOI is the sum
\* of the open interest of the contracts at that strike.
Inv_C3_OnePerStrikeAscending ==
    pc = "aggregated" =>
        /\ {gammaExposures[i].strike : i \in DOMAIN gammaExposures}
               = {contracts[j].strike : j \in DOMAIN contracts}
        /\ \A i, j \in DOMAIN gammaExposures :
               i < j => JsLt(gammaExposures[i].strike, gammaExposures[j].strike)
        /\ \A i \in DOMAIN gammaExposures :
               gammaExposures[i].totalOI =
                   Num(SumInt([j \in DOMAIN contracts |-> IntOf(contracts[j].openInterest)],
                              AtStrike(gammaExposures[i].strike)))

\* Two strikes returned, the higher one met first, one strike holding two
\* contracts with open interest.
Wit_C3_SortedTwoStrikes ==
    /\ pc = "aggregated"
    /\ Len(contracts) = 3
    /\ Len(gammaExposures) = 2
    /\ JsGt(contracts[1].strike, contracts[2].strike)
    /\ \E i \in DOMAIN gammaExposures : JsGt(gammaExposures[i].totalOI, Num(3))

\* C4: a contract with gamma >= 0 and openInterest >= 0 has an exposure <= 0
\* if it is a call and >= 0 if it is a put, and when all contracts are so
\* every aggregate has callGamma <= 0 <= putGamma.
Inv_C4_DealerSign ==
    LET ok(i) == JsGe(exposures[i].gamma, Zero) /\ JsGe(exposures[i].openInterest, Zero)
    IN /\ \A i \in DOMAIN exposures :
              ok(i) => IF exposures[i].optionType = "call"
                       THEN JsLe(exposures[i].gammaExposure, Zero)
                       ELSE JsGe(exposures[i].gammaExposure, Zero)
       /\ (\A i \in DOMAIN exposures : ok(i)) =>
              \A b \in Buckets : JsLe(b.callGamma, Zero) /\ JsGe(b.putGamma, Zero)

\* A returned aggregate with callGamma below zero and putGamma above zero.
Wit_C4_BothSigns ==
    /\ pc = "aggregated"
    /\ \E i \in DOMAIN gammaExposures :
          /\ JsLt(gammaExposures[i].callGamma, Zero)
          /\ JsGt(gammaExposures[i].putGamma, Zero)

\* C5: a call and a put that agree in strike, openInterest, impliedVolatility
\* and daysToExpiry have the same gamma and exposures that are exact negatives
\* of each other, and a strike holding only that pair has netGamma 0.
Inv_C5_CallPutCancel ==
    \A i, j \in DOMAIN exposures :
        CallPutPair(i, j) =>
            /\ exposures[i].gamma = exposures[j].gamma
            /\ exposures[i].gammaExposure = JsNeg(exposures[j].gammaExposure)
            /\ \A b \in Buckets :
                   (b.strike = contracts[i].strike /\ idx = Len(contracts)
                      /\ AtStrike(b.strike) = {i, j})
                       => b.netGamma = Zero

\* A returned strike that holds one call and its matching put and nothing
\* else, with exposures that are not zero, next to another strike.
Wit_C5_PairOnly ==
    /\ pc = "aggregated"
    /\ Len(gammaExposures) = 2
    /\ \E i, j \in DOMAIN contracts :
          /\ CallPutPair(i, j)
          /\ AtStrike(contracts[i].strike) = {i, j}
          /\ exposures[i].gammaExposure # Zero

\* A row of a valid contract: strike > 0, openInterest >= 0 and an implied
\* volatility that is finite and > 0.
ValidRow(row) ==
    /\ JsGt(row.strike, Zero)
    /\ JsGe(row.openInterest, Zero)
    /\ IsFinite(row.rawIV) /\ JsGt(row.rawIV, Zero)

\* C6: an invalid contract (strike <= 0, openInterest < 0, implied volatility
\* not finite or <= 0) goes into no aggregate and no gamma is computed with a
\* volatility that is not > 0: the aggregates are those of the valid contracts
\* of the batch alone.
Claim_C6_InvalidRejected ==
    /\ \A i \in DOMAIN exposures : JsGt(contracts[i].impliedVolatility, Zero)
    /\ pc = "aggregated" =>
           gammaExposures =
               aggregateByStrike(riskFreeRate, parse(SelectSeq(rows, ValidRow)), spotPrice)

\* C7: metrics or an environment asked for no contracts (an empty aggregate
\* list, or runAnalysis with empty optionsData) ends in a NoContractsError.
Claim_C7_NoContractsError ==
    (pc = "returned" \/ (pc \in {"metrics", "environment"} /\ gammaExposures = <<>>))
        => thrown = "NoContractsError"

\* C8: calculateAllMetrics returns callPutGammaRatio = +Infinity, and does not
\* throw, whenever totalPutGamma is 0.
Claim_C8_RatioInfinite ==
    (pc = "metrics" /\ JsEq(metrics.totalPutGamma, Zero))
        => metrics.callPutGammaRatio = Inf(1) /\ thrown = "none"

\* C9: gammaWeightedAvgStrike is sum(strike * |net|) / sum(|net|), and NaN,
\* neither 0 nor an exception, when sum(|net|) is 0.
Inv_C9_WeightedStrike ==
    pc = "metrics" =>
        LET n == Len(gammaExposures)
            totalAbs == SumSeq([i \in 1..n |-> MathAbs(gammaExposures[i].netGamma)])
            weighted == SumSeq([i \in 1..n |->
                                  JsMul(gammaExposures[i].strike,
                                        MathAbs(gammaExposures[i].netGamma))])
        IN /\ thrown = "none"
           /\ metrics.gammaWeightedAvgStrike = JsDiv(weighted, totalAbs)
           /\ JsEq(totalAbs, Zero) => IsNaN(metrics.gammaWeightedAvgStrike)

\* Metrics of two strikes whose nets are all zero: the weighted strike is NaN.
Wit_C9_AllNetZero ==
    /\ pc = "metrics"
    /\ Len(gammaExposures) = 2
    /\ \A i \in DOMAIN gammaExposures : gammaExposures[i].netGamma = Zero
    /\ \E i \in DOMAIN gammaExposures : gammaExposures[i].callGamma # Zero
    /\ IsNaN(metrics.gammaWeightedAvgStrike)

\* C10: with a total open interest of 0 calculateGammaEnvironment does not
\* throw, reports the strength as NaN and gives it none of the five levels.
Claim_C10_StrengthUndefined ==
    (pc = "environment"
       /\ JsEq(SumSeq([i \in DOMAIN gammaExposures |-> gammaExposures[i].totalOI]), Zero))
        => /\ thrown = "none"
           /\ IsNaN(gammaEnvironment.environmentStrength)
           /\ gammaEnvironment.strengthLevel
                  \notin {"Very Strong", "Strong", "Moderate", "Weak", "Very Weak"}

\* The walls have been found.
WallsFound == pc \in {"metrics", "environment"}

\* The aggregate at a strike.
AggregatesAt(strike) ==
    {gammaExposures[i] : i \in {j \in DOMAIN gammaExposures : gammaExposures[j].strike = strike}}

\* C11: every call wall has wallType call_wall, the strike of an aggregate
\* with callGamma < 0, that signed callGamma as exposureValue and
\* |strike - spot| as distanceFromSpot; every put wall has wallType put_wall,
\* the strike of an aggregate with putGamma > 0, that putGamma as
\* exposureValue and |strike - spot| as distanceFromSpot.
Inv_C11_WallFields ==
    WallsFound =>
        /\ \A i \in DOMAIN walls.callWalls :
               LET w == walls.callWalls[i]
               IN /\ w.wallType = "call_wall"
                  /\ \E ge \in AggregatesAt(w.strike) :
                         JsLt(ge.callGamma, Zero) /\ w.exposureValue = ge.callGamma
                  /\ w.distanceFromSpot = MathAbs(JsSub(w.strike, spotPrice))
        /\ \A i \in DOMAIN walls.putWalls :
               LET w == walls.putWalls[i]
               IN /\ w.wallType = "put_wall"
                  /\ \E ge \in AggregatesAt(w.strike) :
                         JsGt(ge.putGamma, Zero) /\ w.exposureValue = ge.putGamma
                  /\ w.distanceFromSpot = MathAbs(JsSub(w.strike, spotPrice))

\* Call walls below and above the spot next to a put wall, from a list that
\* also holds a strike with no call exposure.
Wit_C11_WallsBothSides ==
    /\ WallsFound
    /\ \E i, j \in DOMAIN walls.callWalls :
           /\ JsLt(walls.callWalls[i].strike, spotPrice)
           /\ JsGt(walls.callWalls[j].strike, spotPrice)
    /\ Len(walls.putWalls) > 0
    /\ \E i \in DOMAIN gammaExposures : gammaExposures[i].callGamma = Zero

\* The call magnitude of each aggregate, 0 where it is no call candidate.
CallMagnitudes ==
    [i \in DOMAIN gammaExposures |->
        IF JsLt(gammaExposures[i].callGamma, Zero)
        THEN MathAbs(gammaExposures[i].callGamma) ELSE Zero]

\* The put magnitude of each aggregate, 0 where it is no put candidate.
PutMagnitudes ==
    [i \in DOMAIN gammaExposures |->
        IF JsGt(gammaExposures[i].putGamma, Zero) THEN gammaExposures[i].putGamma ELSE Zero]

\* ws ranks 1..k the largest of the candidates that hold at least the
\* threshold share of the summed magnitudes, at most maxWalls of them.
IsTopRanking(ws, mags) ==
    LET cands == {i \in DOMAIN mags : JsGt(mags[i], Zero)}
        total == Num(SumInt([i \in DOMAIN mags |-> IntOf(mags[i])], cands))
        elig == {i \in cands : JsGe(mags[i], JsMul(total, minSignificanceThreshold))}
        chosen == {i \in DOMAIN mags :
                      \E k \in DOMAIN ws : ws[k].strike = gammaExposures[i].strike}
    IN /\ Len(ws) = (IF maxWalls < Cardinality(elig) THEN maxWalls ELSE Cardinality(elig))
       /\ chosen \subseteq elig
       /\ Cardinality(chosen) = Len(ws)
       /\ \A k \in DOMAIN ws : ws[k].significanceRank = k
       /\ \A k, l \in DOMAIN ws :
              k < l => JsGe(MathAbs(ws[k].exposureValue), MathAbs(ws[l].exposureValue))
       /\ \A i \in elig \ chosen : \A k \in DOMAIN ws :
              JsGe(MathAbs(ws[k].exposureValue), mags[i])

\* C12: findCallWalls and findPutWalls return the first maxWalls candidates,
\* in descending magnitude with ranks 1..k, among those whose magnitude is at
\* least threshold * (sum of the candidate magnitudes), and nothing else.
Inv_C12_TopWallsOverThreshold ==
    WallsFound =>
        /\ IsTopRanking(walls.callWalls, CallMagnitudes)
        /\ IsTopRanking(walls.putWalls, PutMagnitudes)

\* One strike with 90% of the call exposure and nine with 1.1% each at the
\* threshold 0.05: the dominant strike is the only wall.
Wit_C12_DominantOnly ==
    /\ WallsFound
    /\ gammaExposures = DominantStrike
    /\ minSignificanceThreshold = Dec(5, 100)
    /\ maxWalls = DefaultMaxWalls
    /\ Len(walls.callWalls) = 1
    /\ walls.callWalls[1].strike = Num(103)

\* C13: for the same aggregates, spot and maxWalls, a threshold that is not
\* lower returns no more call walls and no more put walls.
Inv_C13_ThresholdMonotone ==
    WallsFound =>
        \A t \in Thresholds :
            JsGe(t, minSignificanceThreshold) =>
                /\ Len(findCallWalls(t, gammaExposures, spotPrice, maxWalls))
                       <= Len(walls.callWalls)
                /\ Len(findPutWalls(t, gammaExposures, spotPrice, maxWalls))
                       <= Len(walls.putWalls)

\* Call walls at the threshold 0.05 of which the threshold 0.5 keeps fewer,
\* and put walls of which it keeps as many.
Wit_C13_FewerAtHigherThreshold ==
    /\ WallsFound
    /\ minSignificanceThreshold = Dec(5, 100)
    /\ Len(walls.callWalls) = 2
    /\ Len(findCallWalls(Dec(50, 100), gammaExposures, spotPrice, maxWalls)) < 2
    /\ Len(walls.putWalls) = 2
    /\ Len(findPutWalls(Dec(50, 100), gammaExposures, spotPrice, maxWalls)) = 2

\* Among candidates of equal magnitude ws ranks the lower strike better and
\* keeps it when only some of them are returned.
IsStableRanking(ws, mags) ==
    /\ \A k, l \in DOMAIN ws :
           (MathAbs(ws[k].exposureValue) = MathAbs(ws[l].exposureValue)
              /\ JsLt(ws[k].strike, ws[l].strike))
               => ws[k].significanceRank < ws[l].significanceRank
    /\ \A i \in DOMAIN mags : \A k \in DOMAIN ws :
           (JsGt(mags[i], Zero)
              /\ mags[i] = MathAbs(ws[k].exposureValue)
              /\ \A l \in DOMAIN ws : ws[l].strike # gammaExposures[i].strike)
               => JsLt(ws[k].strike, gammaExposures[i].strike)

\* C14: of two candidate strikes with equal exposure magnitude the lower
\* strike gets the smaller significanceRank and is the one kept when the
\* truncation to maxWalls separates them.
Inv_C14_StableRanking ==
    WallsFound =>
        /\ IsStableRanking(walls.callWalls, CallMagnitudes)
        /\ IsStableRanking(walls.putWalls, PutMagnitudes)

\* Three strikes with the same call exposure and maxWalls 2: the walls are
\* the strikes 100 and 101, in that order.
Wit_C14_TieTruncated ==
    /\ WallsFound
    /\ maxWalls = 2
    /\ Len(gammaExposures) = 3
    /\ \A i \in DOMAIN gammaExposures : gammaExposures[i].callGamma = Num(-40)
    /\ Len(walls.callWalls) = 2
    /\ walls.callWalls[1].strike = Num(100)
    /\ walls.callWalls[2].strike = Num(101)

\* C15: the environment is positive iff the sum of netGamma over all
\* aggregates is > 0, negative iff it is < 0 and neutral iff it is exactly 0.
Claim_C15_EnvironmentSign ==
    pc = "environment" =>
        LET total == SumSeq(NetGammas(gammaExposures))
        IN /\ gammaEnvironment.environment = "positive" <=> JsGt(total, Zero)
           /\ gammaEnvironment.environment = "negative" <=> JsLt(total, Zero)
           /\ gammaEnvironment.environment = "neutral" <=> JsEq(total, Zero)

\* Adjacent aggregates i and i + 1 have nets of opposite sign, one > 0 and
\* the other < 0.
OppositeSigns(i) ==
    \/ JsGt(gammaExposures[i].netGamma, Zero) /\ JsLt(gammaExposures[i + 1].netGamma, Zero)
    \/ JsLt(gammaExposures[i].netGamma, Zero) /\ JsGt(gammaExposures[i + 1].netGamma, Zero)

Claim_C17_StrengthBuckets ==
    pc = "environment" =>
        LET strength == gammaEnvironment.environmentStrength
            level == gammaEnvironment.strengthLevel
            totalOI == SumSeq([i \in DOMAIN gammaExposures |-> gammaExposures[i].totalOI])
        IN /\ strength = JsDiv(MathAbs(SumSeq(NetGammas(gammaExposures))),
                               JsMul(spotPrice, totalOI))
           /\ level = "Very Strong" <=> JsGe(strength, Dec(10, 100))
           /\ level = "Strong" <=>
                  (JsGe(strength, Dec(5, 100)) /\ JsLt(strength, Dec(10, 100)))
           /\ level = "Moderate" <=>
                  (JsGe(strength, Dec(2, 100)) /\ JsLt(strength, Dec(5, 100)))
           /\ level = "Weak" <=>
                  (JsGe(strength, Dec(1, 100)) /\ JsLt(strength, Dec(2, 100)))
           /\ level = "Very Weak" <=> JsLt(strength, Dec(1, 100))

\* C18: positiveStrikes + negativeStrikes + neutralStrikes is the number of
\* aggregates, and a percentage count / total * 100 is reported for each of
\* the classes net > 0, net < 0 and net = 0.
Claim_C18_StrikeDistribution ==
    pc = "environment" =>
        LET n == Len(gammaExposures)
            pct(count) == JsMul(JsDiv(Num(count), Num(n)), Num(100))
        IN /\ gammaEnvironment.positiveStrikes + gammaEnvironment.negativeStrikes
                  + gammaEnvironment.neutralStrikes = n
           /\ gammaEnvironment.positiveStrikePercentage
                  = pct(gammaEnvironment.positiveStrikes)
           /\ gammaEnvironment.negativeStrikePercentage
                  = pct(gammaEnvironment.negativeStrikes)
           /\ "neutralStrikePercentage" \in DOMAIN gammaEnvironment
           /\ gammaEnvironment["neutralStrikePercentage"]
                  = pct(gammaEnvironment.neutralStrikes)

\* C19: expectedMove2SD is exactly 2 * expectedMove1SD, upperNSD is
\* currentPrice + expectedMoveNSD and lowerNSD is currentPrice -
\* expectedMoveNSD, for N = 1 and N = 2.
Inv_C19_TwoSDIsDouble ==
    pc = "move" =>
        LET m == expectedMove
        IN /\ m.currentPrice = spotPrice
           /\ m.expectedMove2SD = JsMul(Num(2), m.expectedMove1SD)
           /\ m.upper1SD = JsAdd(m.currentPrice, m.expectedMove1SD)
           /\ m.lower1SD = JsSub(m.currentPrice, m.expectedMove1SD)
           /\ m.upper2SD = JsAdd(m.currentPrice, m.expectedMove2SD)
           /\ m.lower2SD = JsSub(m.currentPrice, m.expectedMove2SD)

\* An expected move above zero from an ATM average over contracts of both
\* volatilities, with a lower two-sigma bound below the one-sigma bound.
Wit_C19_MoveComputed ==
    /\ pc = "move"
    /\ JsGt(expectedMove.expectedMove1SD, Zero)
    /\ JsGt(ivStats.atmIV, Dec(20, 100)) /\ JsLt(ivStats.atmIV, Dec(40, 100))
    /\ JsLt(expectedMove.lower2SD, expectedMove.lower1SD)

\* C20: the ATM statistics depend on the contracts and the caller's current
\* price alone: atmIV is the mean IV of the ten contracts closest to the
\* price that is also passed to calculateExpectedMove, whatever
\* window.currentPrice holds.
Claim_C20_AtmFromCallerPrice ==
    pc \in {"stats", "move"} =>
        ivStats.atmIV = AverageIVAndDTEFrom(contracts, spotPrice).atmIV

\* The contracts in the order of their strike's distance from price, closest
\* first, contracts at the same distance in their input order.
ClosestFirst(price) ==
    LET n == Len(contracts)
        dist(i) == MathAbs(JsSub(contracts[i].strike, price))
        Closer(i, j) == \/ JsLt(dist(i), dist(j))
                        \/ dist(i) = dist(j) /\ i < j
        rank(i) == 1 + Cardinality({j \in 1..n : Closer(j, i)})
    IN [r \in 1..n |-> contracts[CHOOSE i \in 1..n : rank(i) = r]]

\* The mean of one field over a list of contracts, summed from the left.
MeanIV(list) == JsDiv(SumSeq([i \in DOMAIN list |-> list[i].impliedVolatility]),
                      Num(Len(list)))

\* C21: atmIV is the mean impliedVolatility of exactly min(10, n) contracts,
\* those with the strike closest to the current price, ties in input order;
\* overallAvgIV and avgDTE are the means over all n contracts; and for
\* n <= 10 atmIV equals overallAvgIV.
Claim_C21_AtmMeanOfClosest ==
    pc \in {"stats", "move"} =>
        LET n == Len(contracts)
            k == IF n < 10 THEN n ELSE 10
        IN /\ ivStats.atmIV = MeanIV(SubSeq(ClosestFirst(spotPrice), 1, k))
           /\ ivStats.overallAvgIV = MeanIV(contracts)
           /\ ivStats.avgDTE
                  = JsDiv(SumSeq([i \in 1..n |-> contracts[i].daysToExpiry]), Num(n))
           /\ n <= 10 => ivStats.atmIV = ivStats.overallAvgIV

\* Whether a call has stored its result: the results start as <<>>.
Stored(result) == DOMAIN result # {}

Claim_C23_AnalysisNeverStale ==
    pc = "app" =>
        IF contracts = <<>>
        THEN gammaExposures = <<>> /\ ~Stored(walls) /\ ~Stored(gammaEnvironment)
        ELSE /\ gammaExposures = aggregateByStrike(riskFreeRate, contracts, spotPrice)
             /\ walls = findAllWalls(minSignificanceThreshold, gammaExposures, spotPrice,
                                     maxWalls)
             /\ gammaEnvironment = calculateGammaEnvironment(gammaExposures, spotPrice)

\* The prices currentPrice can hold: the initial one, those typed and those
\* detected in a file.
AppPrices ==
    {Num(InitialPrice)} \cup PriceInputs
        \cup {estimatedPrice(parse(file.rows)) :
                 file \in {f \in UploadFiles : ~ParseThrows(f.rows) /\ parse(f.rows) # <<>>}}

\* C24: a run of runAnalysis is not interleaved with any event, so in every
\* state between events the stored walls and gammaEnvironment are those of
\* the stored gammaExposures, at the one currentPrice of the run that stored
\* all three.
Inv_C24_OneSnapshot ==
    (pc = "app" /\ gammaExposures # <<>>) =>
        \E price \in AppPrices :
            /\ walls = findAllWalls(minSignificanceThreshold, gammaExposures, price, maxWalls)
            /\ gammaEnvironment = calculateGammaEnvironment(gammaExposures, price)

\* A second analysis has replaced a first one of other strikes, and the
\* price was changed afterwards by an event that ran no analysis: the walls
\* are those of the stored aggregates at the price of the run, not at the
\* current price.
Wit_C24_ReplacedAnalysis ==
    /\ pc = "app"
    /\ contracts = <<>>
    /\ Len(gammaExposures) = 2
    /\ Len(walls.callWalls) >= 1
    /\ walls.callWalls[1].distanceFromSpot
           # MathAbs(JsSub(walls.callWalls[1].strike, spotPrice))

\* A file whose read ends without data: parse throws, or returns no contract.
Rejected(file) == ParseThrows(file.rows) \/ parse(file.rows) = <<>>

\* C28: a rejected upload leaves the page as it was: the onload of a file
\* that fails to parse or holds no valid contract changes none of
\* optionsData, currentPrice, gammaExposures, walls and gammaEnvironment, and
\* a price or rate input re-analyses the data that is loaded.
Claim_C28_RejectedUploadKeepsState ==
    [][/\ \A file \in Files :
              (Rejected(file) /\ OnloadOf(file)) =>
                  UNCHANGED <<contracts, spotPrice, gammaExposures, walls, gammaEnvironment>>
       /\ ((PriceInput \/ RateInput) /\ contracts # <<>>) =>
              /\ contracts' = contracts
              /\ gammaExposures' = aggregateByStrike(riskFreeRate', contracts, spotPrice')]_vars

\* C29: when several uploads are started before their reads complete, then
\* whatever the order of the onload callbacks, once all have fired the
\* optionsData, the detected currentPrice and the analysis are those of the
\* file chosen last; and at any time optionsData and the detected price come
\* from one file.
Claim_C29_LastSelectedWins ==
    pc = "app" =>
        /\ (pending = <<>> /\ selected # NoFile /\ ~Rejected(selected)) =>
               /\ contracts = parse(selected.rows)
               /\ spotPrice = estimatedPrice(contracts)
               /\ gammaExposures = aggregateByStrike(riskFreeRate, contracts, spotPrice)
               /\ walls = findAllWalls(minSignificanceThreshold, gammaExposures, spotPrice,
                                       maxWalls)
               /\ gammaEnvironment = calculateGammaEnvironment(gammaExposures, spotPrice)
        /\ \/ contracts = <<>> /\ spotPrice = Num(InitialPrice)
           \/ \E file \in UploadFiles :
                  /\ ~Rejected(file)
                  /\ contracts = parse(file.rows)
                  /\ spotPrice = estimatedPrice(contracts)

\* C25: every contract parse emits has an impliedVolatility within
\* [0.01, 2.0]: a raw value above 10 is a percentage and is divided by 100,
\* and a value outside the range is clamped into it.
Claim_C25_VolatilityInRange ==
    /\ \A i \in DOMAIN contracts :
           /\ JsGe(contracts[i].impliedVolatility, Dec(1, 100))
           /\ JsLe(contracts[i].impliedVolatility, Num(2))
    /\ pc # "parse" =>
           LET kept == SelectSeq(rows, KeepsRow)
           IN \A i \in DOMAIN kept :
                  (/\ JsGt(kept[i].rawIV, Num(10))
                   /\ JsGe(JsDiv(kept[i].rawIV, Num(100)), Dec(1, 100))
                   /\ JsLe(JsDiv(kept[i].rawIV, Num(100)), Num(2))) =>
                      contracts[i].impliedVolatility = JsDiv(kept[i].rawIV, Num(100))

\* C30: metrics and walls agree on the extreme strike: when findCallWalls
\* returns walls, the exposureValue of the first is maxCallExposure of the
\* metrics of the same aggregates, and likewise the first put wall and
\* maxPutExposure.
Claim_C30_WallsMatchMetrics ==
    pc \in {"metrics", "environment"} =>
        /\ walls.callWalls # <<>> =>
               walls.callWalls[1].exposureValue = metrics.maxCallExposure
        /\ walls.putWalls # <<>> =>
               walls.putWalls[1].exposureValue = metrics.maxPutExposure

\* C26: when the aggregate list has a strike of positive and a strike of
\* negative net gamma, the environment reports a flip level, and it lies
\* between two strikes of opposite net sign, also when strikes of net gamma
\* 0 lie between them.
Claim_C26_FlipWhenSignsDiffer ==
    (/\ pc = "environment"
     /\ \E i \in DOMAIN gammaExposures : JsGt(gammaExposures[i].netGamma, Zero)
     /\ \E i \in DOMAIN gammaExposures : JsLt(gammaExposures[i].netGamma, Zero)) =>
        /\ gammaEnvironment.gammaFlipLevel # Null
        /\ \E i, j \in DOMAIN gammaExposures :
               /\ i < j
               /\ SignChange(gammaExposures[i], gammaExposures[j])
               /\ JsLe(gammaExposures[i].strike, gammaEnvironment.gammaFlipLevel)
               /\ JsLe(gammaEnvironment.gammaFlipLevel, gammaExposures[j].strike)

\* ws is empty only for no candidate.
EmptyOnlyWithoutCandidates(ws, mags) ==
    LET cands == {i \in DOMAIN mags : JsGt(mags[i], Zero)}
        top == {i \in cands : \A j \in cands : JsGe(mags[i], mags[j])}
    IN /\ ws = <<>> => cands = {}
       /\ cands # {} =>
              /\ ws # <<>>
              /\ ws[1].significanceRank = 1
              /\ \E i \in top : ws[1].strike = gammaExposures[i].strike

\* C27 as stated: with the threshold 0.05 and maxWalls >= 1 the call walls
\* are empty only when no aggregate has callGamma < 0 and the put walls only
\* when none has putGamma > 0; whenever a candidate exists, the largest is
\* returned with significanceRank 1, however many candidates there are.
Claim_C27_EmptyOnlyWithoutCandidates ==
    (WallsFound /\ minSignificanceThreshold = DefaultThreshold /\ maxWalls >= 1) =>
        /\ EmptyOnlyWithoutCandidates(walls.callWalls, CallMagnitudes)
        /\ EmptyOnlyWithoutCandidates(walls.putWalls, PutMagnitudes)

\* ws is empty exactly for no candidate or a largest candidate under the
\* threshold share of the summed magnitudes; otherwise the largest
\* candidate is first with rank 1; fewer than 1 / threshold candidates
\* always give a wall.
EmptyOnlyBelowShare(ws, mags) ==
    LET cands == {i \in DOMAIN mags : JsGt(mags[i], Zero)}
        total == Num(SumInt([i \in DOMAIN mags |-> IntOf(mags[i])], cands))
        top == {i \in cands : \A j \in cands : JsGe(mags[i], mags[j])}
    IN /\ ws = <<>> <=>
              \/ cands = {}
              \/ \A i \in top : JsLt(mags[i], JsMul(total, minSignificanceThreshold))
       /\ ws # <<>> =>
              /\ ws[1].significanceRank = 1
              /\ \E i \in top :
                     /\ ws[1].strike = gammaExposures[i].strike
                     /\ MathAbs(ws[1].exposureValue) = mags[i]
       /\ (/\ cands # {}
           /\ JsLt(JsMul(Num(Cardinality(cands)), minSignificanceThreshold), Num(1))) =>
              ws # <<>>

\* C27, amended: with the threshold 0.05 and maxWalls >= 1 the call (put)
\* walls are empty exactly when there is no candidate or the largest
\* candidate magnitude is below 0.05 times the summed candidate magnitudes;
\* otherwise the largest candidate is returned with significanceRank 1; with
\* fewer than 20 candidates a wall is always returned.
Inv_C27_EmptyOnlyBelowShare ==
    (WallsFound /\ minSignificanceThreshold = DefaultThreshold /\ maxWalls >= 1) =>
        /\ EmptyOnlyBelowShare(walls.callWalls, CallMagnitudes)
        /\ EmptyOnlyBelowShare(walls.putWalls, PutMagnitudes)

\* Twenty-one candidates of equal magnitude on either side at the default
\* threshold: no call wall and no put wall.
Wit_C27_EqualSharesNoWall ==
    /\ WallsFound
    /\ minSignificanceThreshold = DefaultThreshold
    /\ maxWalls >= 1
    /\ gammaExposures = EqualShares
    /\ \A i \in DOMAIN gammaExposures : JsLt(gammaExposures[i].callGamma, Zero)
    /\ walls.callWalls = <<>>
    /\ walls.putWalls = <<>>
====
